---- MODULE Spec2Model ----
(***************************************************************************)
(* Model of the scoring, ranking and aggregation pipeline of the farming   *)
(* advisor: DataProcessor (utils/data_processor.py), MarketAgent's profit  *)
(* analysis (agents/market_agent.py) and FarmingAgent's                    *)
(* get_comprehensive_recommendations (main_agent.py).                      *)
(*                                                                         *)
(* Python floats are IEEE-754 binary64 values.  They are modelled exactly: *)
(* a float is a record [s, m, e] of value s * m * 2^e whose mantissa m is  *)
(* a 53-bit natural number kept as a little-endian sequence of 15-bit      *)
(* limbs, and every arithmetic operation computes the exact result and     *)
(* rounds it to nearest, ties to even, as the hardware does.               *)
(***************************************************************************)
EXTENDS Integers, Sequences, FiniteSets, TLC

----------------------------------------------------------------------------
(* Natural numbers of arbitrary size: little-endian limb sequences, no     *)
(* leading (high) zero limb; <<>> is 0.                                    *)

LimbBits == 5 * 3
Base == 2^LimbBits
MantBits == 50 + 3

RECURSIVE BStrip(_)
BStrip(a) ==
    IF a = <<>> THEN <<>>
    ELSE IF a[Len(a)] = 0 THEN BStrip(SubSeq(a, 1, Len(a) - 1))
    ELSE a

RECURSIVE BAddC(_, _, _)
BAddC(a, b, c) ==
    IF a = <<>> /\ b = <<>> THEN (IF c = 0 THEN <<>> ELSE <<c>>)
    ELSE LET x == IF a = <<>> THEN 0 ELSE Head(a)
             y == IF b = <<>> THEN 0 ELSE Head(b)
             t == x + y + c
         IN <<t % Base>> \o BAddC(IF a = <<>> THEN <<>> ELSE Tail(a),
                                  IF b = <<>> THEN <<>> ELSE Tail(b),
                                  t \div Base)

BAdd(a, b) == BAddC(a, b, 0)

RECURSIVE BSubC(_, _, _)
BSubC(a, b, c) ==
    IF a = <<>> THEN <<>>
    ELSE LET y == IF b = <<>> THEN 0 ELSE Head(b)
             t == Head(a) - y - c
         IN <<t % Base>> \o BSubC(Tail(a),
                                  IF b = <<>> THEN <<>> ELSE Tail(b),
                                  IF t < 0 THEN 1 ELSE 0)

\* a - b for a >= b
BSub(a, b) == BStrip(BSubC(a, b, 0))

RECURSIVE BCmpAt(_, _, _)
BCmpAt(a, b, i) ==
    IF i = 0 THEN 0
    ELSE IF a[i] > b[i] THEN 1
    ELSE IF a[i] < b[i] THEN -1
    ELSE BCmpAt(a, b, i - 1)

\* -1, 0, 1 as a < b, a = b, a > b
BCmp(a, b) ==
    IF Len(a) > Len(b) THEN 1
    ELSE IF Len(a) < Len(b) THEN -1
    ELSE BCmpAt(a, b, Len(a))

RECURSIVE BMulSmallC(_, _, _)
BMulSmallC(a, k, c) ==
    IF a = <<>> THEN (IF c = 0 THEN <<>> ELSE <<c>>)
    ELSE LET t == Head(a) * k + c
         IN <<t % Base>> \o BMulSmallC(Tail(a), k, t \div Base)

\* a * k for 0 <= k < Base
BMulSmall(a, k) == BStrip(BMulSmallC(a, k, 0))

RECURSIVE BMul(_, _)
BMul(a, b) ==
    IF b = <<>> \/ a = <<>> THEN <<>>
    ELSE LET rest == BMul(a, Tail(b))
         IN BAdd(BMulSmall(a, Head(b)),
                 IF rest = <<>> THEN <<>> ELSE <<0>> \o rest)

Zeros(n) == [i \in 1..n |-> 0]

\* a * 2^n
BShl(a, n) ==
    IF a = <<>> THEN <<>>
    ELSE Zeros(n \div LimbBits) \o BMulSmall(a, 2^(n % LimbBits))

\* floor(a / 2^n)
BShr(a, n) ==
    LET d == n \div LimbBits
        r == n % LimbBits
        b == IF d >= Len(a) THEN <<>> ELSE SubSeq(a, d + 1, Len(a))
    IN BStrip([i \in 1..Len(b) |->
                  (b[i] \div 2^r)
                  + (IF i < Len(b) THEN (b[i + 1] % 2^r) * 2^(LimbBits - r) ELSE 0)])

RECURSIVE NatBitLen(_)
NatBitLen(n) == IF n = 0 THEN 0 ELSE 1 + NatBitLen(n \div 2)

BBitLen(a) == IF a = <<>> THEN 0 ELSE LimbBits * (Len(a) - 1) + NatBitLen(a[Len(a)])

BOdd(a) == a # <<>> /\ a[1] % 2 = 1

RECURSIVE BFromNat(_)
BFromNat(n) == IF n = 0 THEN <<>> ELSE <<n % Base>> \o BFromNat(n \div Base)

RECURSIVE BToNatAt(_, _)
BToNatAt(a, i) == IF i > Len(a) THEN 0 ELSE a[i] + Base * BToNatAt(a, i + 1)

\* the value of a as an integer, for a < 2^30
BToNat(a) == BToNatAt(a, 1)

----------------------------------------------------------------------------
(* binary64 values and their arithmetic                                    *)

FZero == [s |-> 1, m |-> <<>>, e |-> 0]

IsZero(x) == x.m = <<>>

\* q2 is the rounded mantissa, of MantBits or MantBits + 1 bits
Renormalize(sgn, q2, E) ==
    IF BBitLen(q2) > MantBits
    THEN [s |-> sgn, m |-> BShr(q2, 1), e |-> E + 1]
    ELSE [s |-> sgn, m |-> q2, e |-> E]

\* q is the kept part of the mantissa; c compares the dropped part with half
\* a unit of q: round up above half, and at half when q is odd
RoundHalfEven(sgn, q, c, E) ==
    Renormalize(sgn, IF c > 0 \/ (c = 0 /\ BOdd(q)) THEN BAdd(q, <<1>>) ELSE q, E)

\* M = q * 2^k + (the k dropped bits)
DropBits(sgn, M, q, k, E) ==
    RoundHalfEven(sgn, q, BCmp(BSub(M, BShl(q, k)), BShl(<<1>>, k - 1)), E + k)

\* L is the bit length of M
RoundToLength(sgn, M, E, L) ==
    IF L = 0 THEN FZero
    ELSE IF L <= MantBits
         THEN [s |-> sgn, m |-> BShl(M, MantBits - L), e |-> E - (MantBits - L)]
    ELSE DropBits(sgn, M, BShr(M, L - MantBits), L - MantBits, E)

\* the float nearest to sgn * M * 2^E (ties to even)
FRound(sgn, M, E) == RoundToLength(sgn, M, E, BBitLen(M))

FromInt(n) == FRound(IF n < 0 THEN -1 ELSE 1, BFromNat(IF n < 0 THEN -n ELSE n), 0)

FNeg(x) == IF IsZero(x) THEN x ELSE [x EXCEPT !.s = -x.s]

FAbs(x) == [x EXCEPT !.s = 1]

FMul(x, y) ==
    IF IsZero(x) \/ IsZero(y) THEN FZero
    ELSE FRound(x.s * y.s, BMul(x.m, y.m), x.e + y.e)

\* A and B are the two mantissas on the common exponent e0, c compares them
AddAligned(xs, ys, A, B, c, e0) ==
    IF xs # ys /\ c = 0 THEN FZero
    ELSE FRound(IF xs = ys \/ c > 0 THEN xs ELSE ys,
                IF xs = ys THEN BAdd(A, B)
                ELSE IF c > 0 THEN BSub(A, B) ELSE BSub(B, A),
                e0)

AlignAndAdd(x, y, e0) ==
    AddAligned(x.s, y.s, BShl(x.m, x.e - e0), BShl(y.m, y.e - e0),
               BCmp(BShl(x.m, x.e - e0), BShl(y.m, y.e - e0)), e0)

FAdd(x, y) ==
    IF IsZero(x) THEN y
    ELSE IF IsZero(y) THEN x
    ELSE AlignAndAdd(x, y, IF x.e < y.e THEN x.e ELSE y.e)

FSub(x, y) == FAdd(x, FNeg(y))

\* binary long division, state = <<quotient, remainder>>: n more quotient
\* bits of the remainder over d
RECURSIVE DivBits(_, _, _)
DivBits(state, d, n) ==
    IF n = 0 THEN state
    ELSE IF BCmp(BAdd(state[2], state[2]), d) >= 0
         THEN DivBits(<<BAdd(BAdd(state[1], state[1]), <<1>>),
                        BSub(BAdd(state[2], state[2]), d)>>, d, n - 1)
         ELSE DivBits(<<BAdd(state[1], state[1]), BAdd(state[2], state[2])>>, d, n - 1)

\* the quotient bits are produced in runs of DivChunk
DivChunk == 10 + 2

\* the first quotient bit of two normalized mantissas
DivFirstBit(num, d, first) ==
    IF first THEN <<<<1>>, BSub(num, d)>> ELSE <<<<>>, num>>

\* the quotient with a last bit that tells whether a remainder is left
WithSticky(state) ==
    BAdd(BAdd(state[1], state[1]), IF state[2] = <<>> THEN <<>> ELSE <<1>>)

\* x / y for y # 0
FDiv(x, y) ==
    IF IsZero(x) THEN FZero
    ELSE FRound(x.s * y.s,
                WithSticky(
                    DivBits(
                        DivBits(
                            DivBits(
                                DivBits(
                                    DivBits(DivFirstBit(x.m, y.m, BCmp(x.m, y.m) >= 0),
                                            y.m, DivChunk),
                                    y.m, DivChunk),
                                y.m, DivChunk),
                            y.m, DivChunk),
                        y.m, MantBits + 2 - 4 * DivChunk)),
                x.e - y.e - (MantBits + 3))

\* -1, 0, 1 as x < y, x = y, x > y
FCmp(x, y) ==
    IF IsZero(x) /\ IsZero(y) THEN 0
    ELSE IF IsZero(x) THEN -y.s
    ELSE IF IsZero(y) THEN x.s
    ELSE IF x.s # y.s THEN x.s
    ELSE IF x.e # y.e THEN (IF x.e > y.e THEN x.s ELSE -x.s)
    ELSE x.s * BCmp(x.m, y.m)

FLt(x, y) == FCmp(x, y) < 0
FLe(x, y) == FCmp(x, y) <= 0

\* Python's max(a, b) and min(a, b): the first argument unless the second is
\* strictly greater (smaller)
FMax(x, y) == IF FLt(x, y) THEN y ELSE x
FMin(x, y) == IF FLt(y, x) THEN y ELSE x

\* the float written n/d as a decimal literal (d a power of ten)
Dec(n, d) == FDiv(FromInt(n), FromInt(d))

F0   == FZero
F2   == FromInt(2)
F5   == FromInt(5)
F20  == FromInt(20)
F30  == FromInt(30)
F50  == FromInt(50)
F100 == FromInt(100)

----------------------------------------------------------------------------
(* config.py                                                               *)

CROP_DATABASE ==
    [wheat |->
        [optimal_temp_range |-> <<FromInt(15), FromInt(25)>>,
         rainfall_requirement |-> <<FromInt(450), FromInt(650)>>,
         soil_ph_range |-> <<Dec(60, 10), Dec(75, 10)>>,
         growing_season_days |-> 120,
         soil_types |-> <<"loam", "clay loam", "sandy loam">>,
         planting_months |-> <<3, 4, 10, 11>>],
     corn |->
        [optimal_temp_range |-> <<FromInt(20), FromInt(30)>>,
         rainfall_requirement |-> <<FromInt(500), FromInt(800)>>,
         soil_ph_range |-> <<Dec(60, 10), Dec(68, 10)>>,
         growing_season_days |-> 90,
         soil_types |-> <<"loam", "sandy loam", "silt loam">>,
         planting_months |-> <<4, 5, 6>>],
     rice |->
        [optimal_temp_range |-> <<FromInt(20), FromInt(35)>>,
         rainfall_requirement |-> <<FromInt(1000), FromInt(2000)>>,
         soil_ph_range |-> <<Dec(55, 10), Dec(70, 10)>>,
         growing_season_days |-> 105,
         soil_types |-> <<"clay", "clay loam">>,
         planting_months |-> <<6, 7, 8>>],
     soybeans |->
        [optimal_temp_range |-> <<FromInt(20), FromInt(30)>>,
         rainfall_requirement |-> <<FromInt(450), FromInt(700)>>,
         soil_ph_range |-> <<Dec(60, 10), Dec(70, 10)>>,
         growing_season_days |-> 100,
         soil_types |-> <<"loam", "sandy loam", "silt loam">>,
         planting_months |-> <<4, 5, 6>>],
     cotton |->
        [optimal_temp_range |-> <<FromInt(23), FromInt(32)>>,
         rainfall_requirement |-> <<FromInt(500), FromInt(1000)>>,
         soil_ph_range |-> <<Dec(58, 10), Dec(80, 10)>>,
         growing_season_days |-> 160,
         soil_types |-> <<"sandy loam", "clay loam">>,
         planting_months |-> <<4, 5, 6>>],
     tomatoes |->
        [optimal_temp_range |-> <<FromInt(18), FromInt(26)>>,
         rainfall_requirement |-> <<FromInt(400), FromInt(600)>>,
         soil_ph_range |-> <<Dec(60, 10), Dec(68, 10)>>,
         growing_season_days |-> 75,
         soil_types |-> <<"loam", "sandy loam">>,
         planting_months |-> <<3, 4, 5>>],
     potatoes |->
        [optimal_temp_range |-> <<FromInt(15), FromInt(20)>>,
         rainfall_requirement |-> <<FromInt(400), FromInt(600)>>,
         soil_ph_range |-> <<Dec(50, 10), Dec(60, 10)>>,
         growing_season_days |-> 90,
         soil_types |-> <<"sandy loam", "loam">>,
         planting_months |-> <<3, 4, 8, 9>>],
     carrots |->
        [optimal_temp_range |-> <<FromInt(16), FromInt(20)>>,
         rainfall_requirement |-> <<FromInt(350), FromInt(500)>>,
         soil_ph_range |-> <<Dec(60, 10), Dec(70, 10)>>,
         growing_season_days |-> 70,
         soil_types |-> <<"sandy loam", "loam">>,
         planting_months |-> <<3, 4, 7, 8>>]]

Range(f) == {f[i] : i \in DOMAIN f}

----------------------------------------------------------------------------
(* DataProcessor.calculate_crop_suitability_score                          *)

WeightTemperature == Dec(3, 10)
WeightRainfall    == Dec(25, 100)
WeightSoilPh      == Dec(2, 10)
WeightSoilType    == Dec(15, 100)
WeightSeasonal    == Dec(1, 10)

\* str.lower() on the soil-type labels the model uses
Lower(str) ==
    CASE str = "Loam" -> "loam"
      [] str = "LOAM" -> "loam"
      [] str = "Clay" -> "clay"
      [] OTHER -> str

\* a raised exception, as a value
Raise(name) == [error |-> name]
IsError(x) == "error" \in DOMAIN x

InRange(x, range) == FLe(range[1], x) /\ FLe(x, range[2])

TempScore(temp, range) ==
    IF InRange(temp, range) THEN F100
    ELSE IF FLt(temp, range[1])
         THEN FMax(F0, FSub(F100, FMul(FAbs(FSub(temp, range[1])), F5)))
         ELSE FMax(F0, FSub(F100, FMul(FAbs(FSub(temp, range[2])), F5)))

\* rain_min (rain_max) = 0 makes the division raise ZeroDivisionError
RainScore(rainfall, range) ==
    IF InRange(rainfall, range) THEN F100
    ELSE IF FLt(rainfall, range[1])
         THEN IF IsZero(range[1]) THEN Raise("ZeroDivisionError")
              ELSE FMax(F0, FSub(F100,
                      FMul(FDiv(FAbs(FSub(rainfall, range[1])), range[1]), F50)))
         ELSE IF IsZero(range[2]) THEN Raise("ZeroDivisionError")
              ELSE FMax(F0, FSub(F100,
                      FMul(FDiv(FAbs(FSub(rainfall, range[2])), range[2]), F30)))

PhScore(ph, range) ==
    IF InRange(ph, range) THEN F100
    ELSE FMax(F0, FSub(F100,
            FMul(FAbs(FSub(ph, FDiv(FAdd(range[1], range[2]), F2))), F20)))

SoilScore(soil_type, soil_types) ==
    IF Lower(soil_type) \in Range(soil_types) THEN F100 ELSE F50

AbsInt(n) == IF n < 0 THEN -n ELSE n
MinInt(a, b) == IF a < b THEN a ELSE b
MaxInt(a, b) == IF a > b THEN a ELSE b
MinOfSet(S) == CHOOSE x \in S : \A y \in S : x <= y

\* the distance along the year without the wrap at December
MonthDistanceNoWrap(current_month, pm) == AbsInt(current_month - pm)

\* min(abs(current_month - pm), 12 - abs(current_month - pm))
MonthDistance(current_month, pm) ==
    MinInt(AbsInt(current_month - pm), 12 - AbsInt(current_month - pm))

\* the seasonal score with an empty list of planting months scored 0
SeasonalScoreOrZero(current_month, planting_months) ==
    IF current_month \in Range(planting_months) THEN F100
    ELSE IF planting_months = <<>> THEN F0
    ELSE FromInt(MaxInt(0,
            100 - 20 * MinOfSet({MonthDistance(current_month, pm) :
                                    pm \in Range(planting_months)})))

\* min() of an empty list raises ValueError
SeasonalScore(current_month, planting_months) ==
    IF current_month \in Range(planting_months) THEN F100
    ELSE IF planting_months = <<>> THEN Raise("ValueError")
    ELSE LET closest_distance ==
                 MinOfSet({MonthDistance(current_month, pm) : pm \in Range(planting_months)})
         IN FromInt(MaxInt(0, 100 - closest_distance * 20))

HasKey(d, k) == k \in DOMAIN d


\* score += factor_score * weight, when the factor is given
AddFactor(given, score, factor_score, weight) ==
    IF given THEN FAdd(score, FMul(factor_score, weight)) ELSE score

\* total_factors += weight, when the factor is given
AddWeight(given, total_factors, weight) ==
    IF given THEN FAdd(total_factors, weight) ELSE total_factors

\* return score / total_factors if total_factors > 0 else 0.0
Normalized(score, total_factors) ==
    IF FLt(F0, total_factors) THEN FDiv(score, total_factors) ELSE F0

WeightedScore(req, env, rain_score, seasonal_score) ==
    Normalized(
        FAdd(AddFactor(HasKey(env, "soil_type"),
               AddFactor(HasKey(env, "soil_ph"),
                 AddFactor(HasKey(env, "rainfall"),
                   AddFactor(HasKey(env, "temperature"), F0,
                             TempScore(env.temperature, req.optimal_temp_range),
                             WeightTemperature),
                   rain_score, WeightRainfall),
                 PhScore(env.soil_ph, req.soil_ph_range), WeightSoilPh),
               SoilScore(env.soil_type, req.soil_types), WeightSoilType),
             FMul(seasonal_score, WeightSeasonal)),
        FAdd(AddWeight(HasKey(env, "soil_type"),
               AddWeight(HasKey(env, "soil_ph"),
                 AddWeight(HasKey(env, "rainfall"),
                   AddWeight(HasKey(env, "temperature"), F0, WeightTemperature),
                   WeightRainfall),
                 WeightSoilPh),
               WeightSoilType),
             WeightSeasonal))

\* the score, or the exception a factor raised
ScoreOrError(req, env, rain_score, seasonal_score) ==
    IF IsError(rain_score) THEN rain_score
    ELSE IF IsError(seasonal_score) THEN seasonal_score
    ELSE WeightedScore(req, env, rain_score, seasonal_score)

calculate_crop_suitability_score(req, env, current_month) ==
    ScoreOrError(req, env,
                 IF HasKey(env, "rainfall")
                 THEN RainScore(env.rainfall, req.rainfall_requirement) ELSE F0,
                 SeasonalScore(current_month, req.planting_months))

----------------------------------------------------------------------------
(* Python dicts: functions on a set of string keys; {} is <<>>             *)

GetOr(d, k, default) == IF k \in DOMAIN d THEN d[k] ELSE default

SetKey(d, k, v) == [x \in DOMAIN d \cup {k} |-> IF x = k THEN v ELSE d[x]]

----------------------------------------------------------------------------
(* DataProcessor.rank_crops_by_profitability                               *)

WeightSuitability   == Dec(6, 10)
WeightProfitability == Dec(4, 10)

CombinedScoreNoCap(suitability, roi) ==
    FAdd(FMul(suitability, WeightSuitability), FMul(roi, WeightProfitability))

\* combined_score = (suitability * 0.6) + (min(roi, 100) * 0.4)
CombinedScore(suitability, roi) ==
    FAdd(FMul(suitability, WeightSuitability),
         FMul(FMin(roi, F100), WeightProfitability))

\* the loop body: analysis['combined_score'] = combined_score
\* the score attached and written over the suitability score as well
WithScoreOverwritten(analysis) ==
    SetKey(SetKey(analysis, "suitability_score",
                  CombinedScore(GetOr(analysis, "suitability_score", F0),
                                GetOr(GetOr(analysis, "profit_analysis", <<>>),
                                      "roi_percentage", F0))),
           "combined_score",
           CombinedScore(GetOr(analysis, "suitability_score", F0),
                         GetOr(GetOr(analysis, "profit_analysis", <<>>),
                               "roi_percentage", F0)))

\* crop['combined_score'] = ...
WithCombinedScore(analysis) ==
    SetKey(analysis, "combined_score",
           CombinedScore(GetOr(analysis, "suitability_score", F0),
                         GetOr(GetOr(analysis, "profit_analysis", <<>>),
                               "roi_percentage", F0)))

ComesBeforeUnstable(x, y) == FLe(y.combined_score, x.combined_score)

ComesBeforeAscending(x, y) == FLt(x.combined_score, y.combined_score)

\* sorted(..., reverse=True): x is placed before an element y already in the
\* result only if its key is strictly greater, so equal keys keep their order
ComesBefore(x, y) == FLt(y.combined_score, x.combined_score)

RECURSIVE InsertRanked(_, _)
InsertRanked(sorted, x) ==
    IF sorted = <<>> THEN <<x>>
    ELSE IF ComesBefore(x, Head(sorted)) THEN <<x>> \o sorted
    ELSE <<Head(sorted)>> \o InsertRanked(Tail(sorted), x)

RECURSIVE InsertAscending(_, _)
InsertAscending(sorted, x) ==
    IF sorted = <<>> THEN <<x>>
    ELSE IF FLt(x.combined_score, Head(sorted).combined_score) THEN <<x>> \o sorted
    ELSE <<Head(sorted)>> \o InsertAscending(Tail(sorted), x)

RECURSIVE SortedAscending(_, _)
SortedAscending(list, acc) ==
    IF list = <<>> THEN acc
    ELSE SortedAscending(Tail(list), InsertAscending(acc, Head(list)))

Reversed(list) == [i \in 1..Len(list) |-> list[Len(list) + 1 - i]]

\* an ascending sort turned around, which turns equal keys around as well
SortedAscendingReversed(list, acc) == Reversed(SortedAscending(list, acc))

RECURSIVE SortedByCombined(_, _)
SortedByCombined(list, acc) ==
    IF list = <<>> THEN acc
    ELSE SortedByCombined(Tail(list), InsertRanked(acc, Head(list)))

\* the input list after the loop (its dicts are updated in place)
ScoredAnalyses(list) == [i \in 1..Len(list) |-> WithCombinedScore(list[i])]

\* the returned list, and the input list as the call leaves it
rank_crops_by_profitability(list) ==
    LET scored == ScoredAnalyses(list)
    IN [crop_analyses |-> scored, ranked_crops |-> SortedByCombined(scored, <<>>)]

----------------------------------------------------------------------------
(* MarketAgent                                                             *)

base_prices ==
    [wheat |-> 250, corn |-> 200, rice |-> 400, soybeans |-> 450,
     cotton |-> 1600, tomatoes |-> 800, potatoes |-> 300, carrots |-> 350]

production_costs ==
    [wheat |-> 400, corn |-> 500, rice |-> 800, soybeans |-> 450,
     cotton |-> 1200, tomatoes |-> 2000, potatoes |-> 1500, carrots |-> 1200]

\* tons per hectare, in tenths (3.0, 9.0, 4.5, 2.8, 1.5, 50.0, 25.0, 30.0)
typical_yields_tenths ==
    [wheat |-> 30, corn |-> 90, rice |-> 45, soybeans |-> 28,
     cotton |-> 15, tomatoes |-> 500, potatoes |-> 250, carrots |-> 300]

\* round-half-even of the exact value |x| * scale, as a natural number
RoundedScaled(x, scale) ==
    LET M == BMulSmall(x.m, scale)
    IN IF x.e >= 0 THEN BShl(M, x.e)
       ELSE LET k == -x.e
                q == BShr(M, k)
                r == BSub(M, BShl(q, k))
                c == BCmp(r, BShl(<<1>>, k - 1))
            IN IF c > 0 \/ (c = 0 /\ BOdd(q)) THEN BAdd(q, <<1>>) ELSE q

\* round(x, ndigits): the float nearest to the decimal that is x's exact
\* value rounded half-even to ndigits places
PyRound(x, ndigits) ==
    IF IsZero(x) THEN FZero
    ELSE FDiv(FRound(x.s, RoundedScaled(x, 10^ndigits), 0), FromInt(10^ndigits))

Round2(x) == PyRound(x, 2)
Round1(x) == PyRound(x, 1)

\* get_current_prices([crop])['prices'][crop]['current_price']; volatility is
\* the value np.random.normal(1.0, 0.1) returned
CurrentPrice(crop, volatility) ==
    Round2(FMul(FromInt(GetOr(base_prices, crop, 0)), volatility))

InsufficientData(crop) == [error |-> "Insufficient data", crop |-> crop]

ProfitCheckIgnoresPrice(crop_price, production_cost, expected_yield) ==
    IsZero(production_cost) \/ IsZero(expected_yield)

\* crop_price == 0 or production_cost == 0 or expected_yield == 0
ProfitDataMissing(crop_price, production_cost, expected_yield) ==
    IsZero(crop_price) \/ IsZero(production_cost) \/ IsZero(expected_yield)

\* the return as a plain ratio, the factor 100 left out
ReturnAsRatio(net_profit, total_costs) ==
    IF FLt(F0, total_costs) THEN FDiv(net_profit, total_costs) ELSE F0

\* roi = (net_profit / total_costs * 100) if total_costs > 0 else 0
ReturnOnInvestment(net_profit, total_costs) ==
    IF FLt(F0, total_costs) THEN FMul(FDiv(net_profit, total_costs), F100) ELSE F0

\* custom_yield is None (<<>>) or a float; "custom_yield or typical" takes the
\* typical yield for None and for 0
calculate_profit_analysis(crop, land_area, custom_yield, volatility) ==
    LET crop_price      == CurrentPrice(crop, volatility)
        production_cost == FromInt(GetOr(production_costs, crop, 0))
        expected_yield  == IF custom_yield = <<>> \/ IsZero(custom_yield)
                           THEN Dec(GetOr(typical_yields_tenths, crop, 0), 10)
                           ELSE custom_yield
        total_yield     == FMul(expected_yield, land_area)
        gross_revenue   == FMul(total_yield, crop_price)
        total_costs     == FMul(production_cost, land_area)
        net_profit      == FSub(gross_revenue, total_costs)
        profit_margin   == IF FLt(F0, gross_revenue)
                           THEN FMul(FDiv(net_profit, gross_revenue), F100) ELSE F0
        roi             == ReturnOnInvestment(net_profit, total_costs)
        breakeven_price == IF FLt(F0, total_yield)
                           THEN FDiv(total_costs, total_yield) ELSE F0
    IN IF ProfitDataMissing(crop_price, production_cost, expected_yield)
       THEN InsufficientData(crop)
       ELSE IF IsZero(land_area) THEN Raise("float division by zero")
       ELSE [crop |-> crop,
             land_area_hectares |-> land_area,
             financial_analysis |->
                [gross_revenue     |-> Round2(gross_revenue),
                 total_costs       |-> Round2(total_costs),
                 net_profit        |-> Round2(net_profit),
                 profit_margin     |-> Round2(profit_margin),
                 roi_percentage    |-> Round2(roi),
                 profit_per_hectare |-> Round2(FDiv(net_profit, land_area))],
             production_details |->
                [expected_yield_tons |-> Round2(total_yield),
                 yield_per_hectare |-> expected_yield,
                 current_price_per_ton |-> crop_price,
                 production_cost_per_hectare |-> production_cost,
                 breakeven_price |-> Round2(breakeven_price)]]

----------------------------------------------------------------------------
(* datetime: dates are [year, month, day]                                  *)

IsLeap(y) == y % 4 = 0 /\ (y % 100 # 0 \/ y % 400 = 0)

DaysInMonth(y, m) ==
    IF m = 2 THEN (IF IsLeap(y) THEN 29 ELSE 28)
    ELSE IF m \in {4, 6, 9, 11} THEN 30
    ELSE 31

\* the date with day-of-month d counted on from the first of month m of year y
RECURSIVE NormalizeDate(_, _, _)
NormalizeDate(y, m, d) ==
    IF d <= DaysInMonth(y, m) THEN [year |-> y, month |-> m, day |-> d]
    ELSE IF m = 12 THEN NormalizeDate(y + 1, 1, d - DaysInMonth(y, m))
    ELSE NormalizeDate(y, m + 1, d - DaysInMonth(y, m))

\* date + timedelta(days=n), n >= 0
AddDays(date, n) == NormalizeDate(date.year, date.month, date.day + n)

\* strftime("%Y-%m")
MonthKey(date) == <<date.year, date.month>>

----------------------------------------------------------------------------
(* DataProcessor.generate_planting_calendar                                *)

DefaultMonthsAhead == 12
DaysPerStep == 30

\* the month test left out: every crop is listed under every key
RECURSIVE CropsForMonthUnfiltered(_, _)
CropsForMonthUnfiltered(recommended_crops, month_num) ==
    IF recommended_crops = <<>> THEN <<>>
    ELSE <<[name |-> GetOr(Head(recommended_crops), "crop_name", ""),
            suitability_score |-> GetOr(Head(recommended_crops), "suitability_score", F0),
            expected_profit |->
                GetOr(GetOr(Head(recommended_crops), "profit_analysis", <<>>),
                      "net_profit", F0)]>>
         \o CropsForMonthUnfiltered(Tail(recommended_crops), month_num)

RECURSIVE CropsForMonth(_, _)
CropsForMonth(recommended_crops, month_num) ==
    IF recommended_crops = <<>> THEN <<>>
    ELSE LET crop == Head(recommended_crops)
             rest == CropsForMonth(Tail(recommended_crops), month_num)
         IN IF month_num \in Range(GetOr(crop, "planting_months", <<>>))
            THEN <<[name |-> GetOr(crop, "crop_name", ""),
                    suitability_score |-> GetOr(crop, "suitability_score", F0),
                    expected_profit |->
                        GetOr(GetOr(crop, "profit_analysis", <<>>), "net_profit", F0)]>>
                 \o rest
            ELSE rest

\* the calendar after the loop iterations i, i + 1, ..., months_ahead - 1
RECURSIVE CalendarFrom(_, _, _, _, _)
CalendarFrom(calendar, recommended_crops, today, i, months_ahead) ==
    IF i >= months_ahead THEN calendar
    ELSE LET month_date == AddDays(today, DaysPerStep * i)
         IN CalendarFrom(
                SetKey(calendar, MonthKey(month_date),
                       [month_name |-> [month |-> month_date.month, year |-> month_date.year],
                        recommended_crops |->
                            CropsForMonth(recommended_crops, month_date.month)]),
                recommended_crops, today, i + 1, months_ahead)

generate_planting_calendar(recommended_crops, months_ahead, today) ==
    CalendarFrom(<<>>, recommended_crops, today, 0, months_ahead)

----------------------------------------------------------------------------
(* DataProcessor.calculate_risk_assessment                                 *)

seasonal_crops == {"tomatoes", "potatoes", "carrots"}

\* the levels counted from 0
RiskLevelFromZero(name) ==
    CASE name = "low" -> 0 [] name = "medium" -> 1 [] name = "high" -> 2

\* risk_levels = {'low': 1, 'medium': 2, 'high': 3}
RiskLevel(name) == CASE name = "low" -> 1 [] name = "medium" -> 2 [] name = "high" -> 3

RiskScale == Dec(3333, 100)

\* the overall level with the thresholds half a level lower
OverallRiskFromTwo(avg_risk) ==
    IF FLe(F2, avg_risk) THEN "high"
    ELSE IF FLe(FromInt(1), avg_risk) THEN "medium"
    ELSE "low"

\* if avg_risk >= 2.5: 'high' elif avg_risk >= 1.5: 'medium', else the initial 'low'
OverallRisk(avg_risk) ==
    IF FLe(Dec(25, 10), avg_risk) THEN "high"
    ELSE IF FLe(Dec(15, 10), avg_risk) THEN "medium"
    ELSE "low"

calculate_risk_assessment(crop_name, environmental_data) ==
    LET temp_level ==
            IF HasKey(environmental_data, "temperature_variance")
            THEN IF FLt(F5, environmental_data.temperature_variance) THEN "high"
                 ELSE IF FLt(FromInt(3), environmental_data.temperature_variance)
                      THEN "medium" ELSE "low"
            ELSE "low"
        weather_risk ==
            IF HasKey(environmental_data, "rainfall_uncertainty")
               /\ FLt(F30, environmental_data.rainfall_uncertainty)
            THEN "high" ELSE temp_level
        market_risk == IF crop_name \in seasonal_crops THEN "high" ELSE "medium"
        pest_risk   == "low"
        avg_risk    == FDiv(FromInt(RiskLevel(weather_risk) + RiskLevel(market_risk)
                                    + RiskLevel(pest_risk)), FromInt(3))
        overall     == OverallRisk(avg_risk)
    IN [risk_levels |-> [weather_risk |-> weather_risk, market_risk |-> market_risk,
                         pest_risk |-> pest_risk, overall_risk |-> overall],
        risk_factors |->
            (IF temp_level = "high" THEN <<"High temperature variability">>
             ELSE IF temp_level = "medium" THEN <<"Moderate temperature variability">>
             ELSE <<>>)
            \o (IF weather_risk = "high" /\ HasKey(environmental_data, "rainfall_uncertainty")
                   /\ FLt(F30, environmental_data.rainfall_uncertainty)
                THEN <<"High rainfall uncertainty">> ELSE <<>>)
            \o (IF market_risk = "high" THEN <<"Seasonal price volatility">> ELSE <<>>),
        risk_score |-> FMul(avg_risk, RiskScale)]

----------------------------------------------------------------------------
(* DataProcessor.format_recommendations                                    *)

DefaultTopN == 5

\* list[:n] with the slice stopping one element late
TakeOneMore(list, n) ==
    IF n < 0 THEN SubSeq(list, 1, MaxInt(0, Len(list) + n + 1))
    ELSE SubSeq(list, 1, MinInt(n + 1, Len(list)))

\* list[:n]
Take(list, n) ==
    IF n < 0 THEN SubSeq(list, 1, MaxInt(0, Len(list) + n))
    ELSE SubSeq(list, 1, MinInt(n, Len(list)))

\* the summary with its figures rounded the way the entries' scores are
SummaryRounded(top_crops) ==
    [best_crop |-> IF top_crops # <<>> THEN top_crops[1].crop_name ELSE "None",
     expected_profit |->
        IF top_crops # <<>>
        THEN Round1(GetOr(GetOr(top_crops[1], "profit_analysis", <<>>), "net_profit", F0))
        ELSE F0,
     confidence_score |->
        IF top_crops # <<>> THEN Round1(GetOr(top_crops[1], "combined_score", F0))
        ELSE F0]

\* the summary with every figure looked up in the defaults only
SummaryOfDefaults(top_crops) ==
    [best_crop |-> IF top_crops # <<>> THEN top_crops[1].crop_name ELSE "",
     expected_profit |->
        IF top_crops # <<>>
        THEN GetOr(GetOr(top_crops[1], "profit_analysis", <<>>), "net_profit", F0)
        ELSE F0,
     confidence_score |->
        IF top_crops # <<>> THEN GetOr(top_crops[1], "combined_score", F0)
        ELSE F0]

\* recommendations['summary']
Summary(top_crops) ==
    [best_crop |-> IF top_crops # <<>> THEN top_crops[1].crop_name ELSE "None",
     expected_profit |->
        IF top_crops # <<>>
        THEN GetOr(GetOr(top_crops[1], "profit_analysis", <<>>), "net_profit", F0)
        ELSE F0,
     confidence_score |->
        IF top_crops # <<>> THEN GetOr(top_crops[1], "combined_score", F0)
        ELSE F0]

\* rec, for the element at index i - 1 of top_crops
Recommendation(crop, i) ==
    [rank |-> i,
     crop_name |-> crop.crop_name,
     suitability_score |-> Round1(GetOr(crop, "suitability_score", F0)),
     combined_score |-> Round1(GetOr(crop, "combined_score", F0)),
     profit_analysis |-> GetOr(crop, "profit_analysis", <<>>),
     risk_assessment |-> GetOr(crop, "risk_assessment", <<>>),
     planting_advice |-> [crop_name |-> GetOr(crop, "crop_name", "")]]

FormatTop(ranked, top_crops, today) ==
    [timestamp |-> today,
     total_crops_analyzed |-> Len(ranked),
     top_recommendations |->
        [i \in 1..Len(top_crops) |-> Recommendation(top_crops[i], i)],
     summary |-> Summary(top_crops)]

format_recommendations(ranked, top_n, today) ==
    FormatTop(ranked, Take(ranked, top_n), today)

----------------------------------------------------------------------------
(* WeatherAgent, SoilAgent: what get_comprehensive_recommendations reads   *)

_get_default_weather_data ==
    [current_temperature |-> FromInt(22), average_temperature |-> FromInt(20),
     total_rainfall_7days |-> FromInt(10), data_source |-> "Default"]

\* SoilAgent._get_default_soil_data: the fields read later
_get_default_soil_data ==
    [soil_type |-> "loam", soil_ph |-> Dec(65, 10), data_source |-> "Default"]

\* MarketAgent._get_default_prices: the fields read later
_get_default_prices == [market_status |-> "stable", data_source |-> "Default Data"]

\* _estimate_soil_type, on whole degrees
EstimateSoilType(latitude, longitude) ==
    IF 25 <= latitude /\ latitude <= 35
    THEN (IF -100 <= longitude /\ longitude <= -80 THEN "clay loam" ELSE "sandy loam")
    ELSE IF 35 <= latitude /\ latitude <= 45 THEN "loam"
    ELSE IF 45 <= latitude /\ latitude <= 50 THEN "silt loam"
    ELSE "loam"

\* analyze_weather_suitability: the two suitability flags of its result
analyze_weather_suitability(weather, req) ==
    [temperature_suitable |->
        InRange(GetOr(weather, "average_temperature", F20), req.optimal_temp_range),
     rainfall_suitable |->
        InRange(FMul(GetOr(weather, "total_rainfall_7days", F0), FromInt(52)),
                req.rainfall_requirement)]

\* analyze_soil_crop_compatibility: the two compatibility flags of its result
analyze_soil_crop_compatibility(soil, req) ==
    [soil_type_match |-> GetOr(soil, "soil_type", "loam") \in Range(req.soil_types),
     ph_compatible |-> InRange(GetOr(soil, "soil_ph", Dec(65, 10)), req.soil_ph_range)]

----------------------------------------------------------------------------
(* FarmingAgent                                                            *)

\* list(CROP_DATABASE.keys()), in the order config.py writes them
CatalogOrder ==
    <<"wheat", "corn", "rice", "soybeans", "cotton", "tomatoes", "potatoes", "carrots">>

\* min(planting_months, key=lambda x: (x - current_month) % 12): the first
\* month of the list with the least key
NextPlantingMonth(planting_months, current_month) ==
    LET key(x) == (x - current_month) % 12
        best == MinOfSet({key(planting_months[i]) : i \in DOMAIN planting_months})
        first == MinOfSet({i \in DOMAIN planting_months : key(planting_months[i]) = best})
    IN planting_months[first]

_generate_next_steps(top_crops, current_month) ==
    IF top_crops = <<>> THEN [advice |-> "No suitable crops found"]
    ELSE LET best_crop == top_crops[1]
             planting_months == GetOr(best_crop, "planting_months", <<>>)
         IN IF current_month \in Range(planting_months)
            THEN [crop_name |-> best_crop.crop_name, advice |-> "act quickly"]
            ELSE IF planting_months = <<>> THEN Raise("ValueError")
            ELSE [crop_name |-> best_crop.crop_name, advice |-> "plan",
                  month |-> NextPlantingMonth(planting_months, current_month)]

\* the environmental conditions built for every crop
EnvironmentalConditions(weather, soil) ==
    [temperature |-> GetOr(weather, "average_temperature", F20),
     rainfall |-> FMul(GetOr(weather, "total_rainfall_7days", F0), FromInt(52)),
     soil_ph |-> GetOr(soil, "soil_ph", Dec(65, 10)),
     soil_type |-> GetOr(soil, "soil_type", "loam")]

\* a per-crop loop body that gives up on a crop without a financial record
AnalyzeOneCropStrict(crop_name, weather, soil, land_area, volatility, today) ==
    IF crop_name \notin DOMAIN CROP_DATABASE THEN Raise("KeyError")
    ELSE LET profit_analysis ==
                 calculate_profit_analysis(crop_name, land_area, <<>>, volatility)
         IN IF IsError(profit_analysis) THEN Raise(profit_analysis.error)
            ELSE [crop_name |-> crop_name,
                  suitability_score |->
                      calculate_crop_suitability_score(
                          CROP_DATABASE[crop_name],
                          EnvironmentalConditions(weather, soil), today.month),
                  profit_analysis |-> profit_analysis.financial_analysis,
                  planting_months |-> CROP_DATABASE[crop_name].planting_months]

\* one iteration of the per-crop loop when the module's CROP_DATABASE is
\* catalog: the crop analysis, or the exception raised
AnalyzeOneCropFrom(catalog, crop_name, weather, soil, land_area, volatility, today) ==
    IF crop_name \notin DOMAIN catalog THEN Raise("KeyError")
    ELSE LET req == catalog[crop_name]
             env == EnvironmentalConditions(weather, soil)
             suitability_score ==
                 calculate_crop_suitability_score(req, env, today.month)
             profit_analysis ==
                 calculate_profit_analysis(crop_name, land_area, <<>>, volatility)
         IN IF IsError(suitability_score) THEN suitability_score
            ELSE [crop_name |-> crop_name,
                  suitability_score |-> suitability_score,
                  profit_analysis |-> GetOr(profit_analysis, "financial_analysis", <<>>),
                  weather_suitability |-> analyze_weather_suitability(weather, req),
                  soil_compatibility |-> analyze_soil_crop_compatibility(soil, req),
                  risk_assessment |-> calculate_risk_assessment(crop_name, env),
                  planting_months |-> req.planting_months,
                  growing_season_days |-> req.growing_season_days]

\* one iteration of the per-crop loop: the crop analysis, or the exception raised
AnalyzeOneCrop(crop_name, weather, soil, land_area, volatility, today) ==
    AnalyzeOneCropFrom(CROP_DATABASE, crop_name, weather, soil, land_area, volatility,
                       today)

\* the except branch of get_comprehensive_recommendations
ErrorResult(exception) ==
    [error |-> exception.error,
     message |-> "Unable to generate recommendations. Please try again."]

----------------------------------------------------------------------------
(* State.  pc is the position of the call in progress; call and ret are   *)
(* the arguments and the result of the call.  market_calls logs every     *)
(* get_current_prices call of the query in progress: the crops asked for  *)
(* and the volatility drawn.  history is what the caller holds of the     *)
(* agent's earlier queries: each query and whether its result was an      *)
(* error result.                                                          *)

VARIABLES pc, current_date, call, ret, crop_analyses, ranked_crops,
          weather_data, soil_data, market_data, market_calls,
          crops_to_analyze, recommendations, history

vars == <<pc, current_date, call, ret, crop_analyses, ranked_crops,
          weather_data, soil_data, market_data, market_calls,
          crops_to_analyze, recommendations, history>>

\* the locals of get_comprehensive_recommendations
query_locals == <<weather_data, soil_data, market_data, crops_to_analyze, recommendations>>

Nil == <<>>

Date(y, m, d) == [year |-> y, month |-> m, day |-> d]

NoQuery ==
    /\ weather_data = Nil
    /\ soil_data = Nil
    /\ market_data = Nil
    /\ crops_to_analyze = Nil
    /\ recommendations = Nil
    /\ history = <<>>

----------------------------------------------------------------------------
(* rank_crops_by_profitability on its own                                  *)

MaxCrops == 3
CropNames == <<"wheat", "corn", "rice", "soybeans", "cotton">>
SuitabilityValues == {FromInt(10), F100}
ProfitValues ==
    {<<>>,
     [roi_percentage |-> Dec(-375, 10)],
     [roi_percentage |-> F100],
     [roi_percentage |-> FromInt(250)]}

AnalysisLists ==
    UNION {[1..n -> SuitabilityValues \X ProfitValues] : n \in 0..MaxCrops}

MakeAnalyses(choice) ==
    [i \in 1..Len(choice) |->
        [crop_name |-> CropNames[i],
         suitability_score |-> choice[i][1],
         profit_analysis |-> choice[i][2]]]

InitRank ==
    /\ NoQuery
    /\ market_calls = <<>>
    /\ pc = "rank"
    /\ current_date = Date(2024, 3, 15)
    /\ call = Nil
    /\ ret = Nil
    /\ \E choice \in AnalysisLists : crop_analyses = MakeAnalyses(choice)
    /\ ranked_crops = <<>>

RankCrops ==
    /\ pc = "rank"
    /\ LET ranking == rank_crops_by_profitability(crop_analyses)
       IN /\ crop_analyses' = ranking.crop_analyses
          /\ ranked_crops' = ranking.ranked_crops
    /\ pc' = "ranked"
    /\ UNCHANGED <<current_date, history, call, ret, market_calls, query_locals>>

\* rank_crops_by_profitability called on the list it returned; the dicts of
\* that list are the dicts of crop_analyses and are updated in place
RankAgain ==
    /\ pc = "ranked"
    /\ LET ranking == rank_crops_by_profitability(ranked_crops)
       IN /\ ranked_crops' = ranking.crop_analyses
          /\ ret' = ranking.ranked_crops
    /\ crop_analyses' = ScoredAnalyses(crop_analyses)
    /\ pc' = "reranked"
    /\ UNCHANGED <<current_date, history, call, market_calls, query_locals>>

NextRank == RankCrops \/ RankAgain

SpecRank == InitRank /\ [][NextRank]_vars

----------------------------------------------------------------------------
(* calculate_crop_suitability_score on its own                             *)

SuitCrops == {"wheat", "rice", "potatoes"}
\* the catalog's requirements of these crops, and wheat's with a soil label
\* written with a capital
SuitRequirements ==
    {CROP_DATABASE[c] : c \in SuitCrops}
        \cup {[CROP_DATABASE["wheat"] EXCEPT !.soil_types = <<"Loam", "clay loam">>]}

SuitMonths == {3, 7, 12}
TemperatureValues == {FromInt(20), FromInt(28), FromInt(50)}
RainfallValues == {FromInt(520), F0}
SoilPhValues == {Dec(65, 10), Dec(52, 10)}
SoilTypeValues == {"loam", "Loam", "peat"}

\* an optional value: <<>> for none, <<v>> for v
Opt(S) == {<<>>} \cup {<<v>> : v \in S}

\* the dicts holding any subset of the four fields
Snapshots ==
    LET Make(t, r, p, st) ==
            [k \in (IF t = <<>> THEN {} ELSE {"temperature"})
                   \cup (IF r = <<>> THEN {} ELSE {"rainfall"})
                   \cup (IF p = <<>> THEN {} ELSE {"soil_ph"})
                   \cup (IF st = <<>> THEN {} ELSE {"soil_type"}) |->
                CASE k = "temperature" -> t[1]
                  [] k = "rainfall" -> r[1]
                  [] k = "soil_ph" -> p[1]
                  [] k = "soil_type" -> st[1]]
    IN {Make(t, r, p, st) : t \in Opt(TemperatureValues), r \in Opt(RainfallValues),
                            p \in Opt(SoilPhValues), st \in Opt(SoilTypeValues)}

InitSuit ==
    /\ NoQuery
    /\ market_calls = <<>>
    /\ pc = "suitability"
    /\ \E m \in SuitMonths : current_date = Date(2024, m, 1)
    /\ \E req \in SuitRequirements, env \in Snapshots :
          call = [crop_requirements |-> req,
                  environmental_conditions |-> env]
    /\ ret = Nil
    /\ crop_analyses = <<>>
    /\ ranked_crops = <<>>

ScoreSuitability ==
    /\ pc = "suitability"
    /\ ret' = calculate_crop_suitability_score(
                  call.crop_requirements, call.environmental_conditions,
                  current_date.month)
    /\ pc' = "scored"
    /\ UNCHANGED <<current_date, history, call, crop_analyses, ranked_crops, market_calls, query_locals>>

NextSuit == ScoreSuitability

SpecSuit == InitSuit /\ [][NextSuit]_vars

----------------------------------------------------------------------------
(* calculate_profit_analysis on its own                                    *)

ProfitCrops == {"wheat", "cotton", "barley"}
LandAreaValues == {F0, FromInt(1), FromInt(10), Dec(55, 100)}
CustomYieldValues == Opt({F0, FromInt(1)})
VolatilityValues == {F0, FromInt(1), Dec(10372, 10000)}

InitProfit ==
    /\ NoQuery
    /\ market_calls = <<>>
    /\ pc = "profit"
    /\ current_date = Date(2024, 3, 15)
    /\ \E c \in ProfitCrops, a \in LandAreaValues, y \in CustomYieldValues :
          call = [crop |-> c, land_area |-> a, custom_yield |-> y]
    /\ ret = Nil
    /\ crop_analyses = <<>>
    /\ ranked_crops = <<>>

AnalyzeProfit ==
    /\ pc = "profit"
    /\ \E volatility \in VolatilityValues :
          /\ market_calls' = Append(market_calls,
                                    [crops |-> <<call.crop>>, volatility |-> volatility])
          /\ ret' = calculate_profit_analysis(
                        call.crop, call.land_area,
                        IF call.custom_yield = <<>> THEN Nil ELSE call.custom_yield[1],
                        volatility)
    /\ pc' = "analyzed"
    /\ UNCHANGED <<current_date, history, call, crop_analyses, ranked_crops, query_locals>>

NextProfit == AnalyzeProfit

SpecProfit == InitProfit /\ [][NextProfit]_vars

----------------------------------------------------------------------------
(* format_recommendations on its own                                       *)

TopNValues == {-1, 0, 1, 2, DefaultTopN}

FormatSuitabilityValues == {Dec(87456, 1000), F100}

FormatProfitValues ==
    {<<>>,
     [net_profit |-> Dec(20784, 100), roi_percentage |-> Dec(9447, 100)]}

FormatChoices ==
    UNION {[1..n -> FormatSuitabilityValues \X FormatProfitValues] : n \in 0..MaxCrops}

InitFormat ==
    /\ NoQuery
    /\ market_calls = <<>>
    /\ pc = "format"
    /\ current_date = Date(2024, 3, 15)
    /\ \E top_n \in TopNValues : call = [top_n |-> top_n]
    /\ ret = Nil
    /\ \E choice \in FormatChoices :
          \E ranking \in {rank_crops_by_profitability(MakeAnalyses(choice))} :
              /\ crop_analyses = ranking.crop_analyses
              /\ ranked_crops = ranking.ranked_crops

FormatReport ==
    /\ pc = "format"
    /\ ret' = format_recommendations(ranked_crops, call.top_n, current_date)
    /\ pc' = "formatted"
    /\ UNCHANGED <<current_date, history, call, crop_analyses, ranked_crops, market_calls, query_locals>>

NextFormat == FormatReport

SpecFormat == InitFormat /\ [][NextFormat]_vars

----------------------------------------------------------------------------
(* The seasonal factor of calculate_crop_suitability_score on its own:     *)
(* requirements with any short list of planting months, the empty list    *)
(* included, and a snapshot without fields                                 *)

MaxPlantingMonths == 2

\* the ascending lists of at most MaxPlantingMonths months
PlantingMonthLists ==
    UNION {{months \in [1..n -> 1..12] :
                \A i \in 1..n : \A j \in 1..n : i < j => months[i] < months[j]} :
           n \in 0..MaxPlantingMonths}

InitSeason ==
    /\ NoQuery
    /\ market_calls = <<>>
    /\ pc = "suitability"
    /\ \E m \in 1..12 : current_date = Date(2024, m, 1)
    /\ \E months \in PlantingMonthLists :
          call = [crop_requirements |->
                      [CROP_DATABASE["wheat"] EXCEPT !.planting_months = months],
                  environmental_conditions |-> <<>>]
    /\ ret = Nil
    /\ crop_analyses = <<>>
    /\ ranked_crops = <<>>

NextSeason == ScoreSuitability

SpecSeason == InitSeason /\ [][NextSeason]_vars

----------------------------------------------------------------------------
(* calculate_risk_assessment on its own                                    *)

RiskCrops == {"wheat", "tomatoes", "dragonfruit"}
VarianceValues == {FromInt(2), FromInt(3), FromInt(4), F5, FromInt(6)}
UncertaintyValues == {FromInt(10), F30, FromInt(40)}

\* the dicts holding any subset of the two volatility indicators
RiskSnapshots ==
    LET Make(tv, ru) ==
            [k \in (IF tv = <<>> THEN {} ELSE {"temperature_variance"})
                   \cup (IF ru = <<>> THEN {} ELSE {"rainfall_uncertainty"}) |->
                IF k = "temperature_variance" THEN tv[1] ELSE ru[1]]
    IN {Make(tv, ru) : tv \in Opt(VarianceValues), ru \in Opt(UncertaintyValues)}

InitRisk ==
    /\ NoQuery
    /\ market_calls = <<>>
    /\ pc = "risk"
    /\ current_date = Date(2024, 3, 15)
    /\ \E c \in RiskCrops, env \in RiskSnapshots :
          call = [crop_name |-> c, environmental_data |-> env]
    /\ ret = Nil
    /\ crop_analyses = <<>>
    /\ ranked_crops = <<>>

AssessRisk ==
    /\ pc = "risk"
    /\ ret' = calculate_risk_assessment(call.crop_name, call.environmental_data)
    /\ pc' = "assessed"
    /\ UNCHANGED <<current_date, history, call, crop_analyses, ranked_crops, market_calls,
                   query_locals>>

NextRisk == AssessRisk

SpecRisk == InitRisk /\ [][NextRisk]_vars

----------------------------------------------------------------------------
(* generate_planting_calendar on its own                                   *)

CalendarYears == {2023, 2024}

StartDates ==
    {dt \in {Date(y, m, d) : y \in CalendarYears, m \in 1..12, d \in 1..31} :
        dt.day <= DaysInMonth(dt.year, dt.month)}

CalendarAnalysis(c) ==
    [crop_name |-> c,
     suitability_score |-> F100,
     profit_analysis |-> [net_profit |-> FromInt(350)],
     planting_months |-> CROP_DATABASE[c].planting_months]

\* an analysis whose crop has no planting month at all
NoSeasonAnalysis(c) == [CalendarAnalysis(c) EXCEPT !.planting_months = <<>>]

CalendarCropLists ==
    {<<CalendarAnalysis("wheat")>>,
     <<CalendarAnalysis("rice"), CalendarAnalysis("wheat")>>,
     <<NoSeasonAnalysis("carrots"), CalendarAnalysis("rice")>>}

InitCalendar ==
    /\ NoQuery
    /\ market_calls = <<>>
    /\ pc = "calendar"
    /\ current_date \in StartDates
    /\ call = Nil
    /\ ret = Nil
    /\ crop_analyses = <<>>
    /\ ranked_crops \in CalendarCropLists

BuildCalendar ==
    /\ pc = "calendar"
    /\ ret' = generate_planting_calendar(ranked_crops, DefaultMonthsAhead, current_date)
    /\ pc' = "calendar_done"
    /\ UNCHANGED <<current_date, history, call, crop_analyses, ranked_crops, market_calls, query_locals>>

NextCalendar == BuildCalendar

SpecCalendar == InitCalendar /\ [][NextCalendar]_vars
----------------------------------------------------------------------------
(* get_comprehensive_recommendations                                       *)

\* how many of a query's price draws may be the extreme (zero) volatility
MaxZeroDraws == 1

Query(lat, lon, area, targets) ==
    [latitude |-> lat, longitude |-> lon, land_area |-> area, target_crops |-> targets]

\* target_crops: <<>> is None, <<list>> is a list
Queries ==
    {Query(41, -93, FromInt(10), <<>>),
     Query(41, -93, FromInt(10), << <<>> >>),
     Query(41, -93, FromInt(10), << <<"tomatoes", "wheat", "rice">> >>),
     Query(30, -90, FromInt(1), << <<"rice", "dragonfruit">> >>),
     Query(95, 200, FromInt(10), << <<"wheat">> >>),
     Query(41, -93, F0, << <<"wheat", "corn">> >>)}

QueryDates == {Date(2024, 3, 15), Date(2023, 12, 5)}

\* the days a query is asked on: the two whole-catalog queries take one day
\* each, the others both
DatesFor(query) ==
    IF query.target_crops = <<>> THEN {Date(2024, 3, 15)}
    ELSE IF query.target_crops[1] = <<>> THEN {Date(2023, 12, 5)}
    ELSE QueryDates

\* what _process_weather_data can return for a week of forecasts
FetchedWeather ==
    {[current_temperature |-> FromInt(30), average_temperature |-> FromInt(28),
      total_rainfall_7days |-> FromInt(25), data_source |-> "Open-Meteo"]}

SoilPhDraws == {Dec(65, 10)}

\* one of the four conditions _assess_market_status chooses from
MarketStatusDraws == {"volatile"}

\* the draws of the per-crop price request; when that request fails the
\* default prices are the base prices, which is the outcome of the draw 1
QueryVolatility == {FromInt(1), F0}

ZeroDraws == Cardinality({i \in DOMAIN market_calls : IsZero(market_calls[i].volatility)})

Init ==
    /\ pc = "weather"
    /\ call \in Queries
    /\ current_date \in DatesFor(call)
    /\ ret = Nil
    /\ crop_analyses = <<>>
    /\ ranked_crops = <<>>
    /\ NoQuery
    /\ market_calls = <<>>

\* a failed weather request raised to the caller, whose except branch ends
\* the query
CollectWeatherOrRaise ==
    /\ pc = "weather"
    /\ \/ /\ weather_data' \in FetchedWeather
          /\ pc' = "soil"
          /\ UNCHANGED ret
       \/ /\ ret' = ErrorResult(Raise("ConnectionError"))
          /\ pc' = "done"
          /\ UNCHANGED weather_data
    /\ UNCHANGED <<current_date, history, call, crop_analyses, ranked_crops, soil_data,
                   market_data, market_calls, crops_to_analyze, recommendations>>

\* weather_agent.get_current_weather: the processed response, or the
\* defaults when the request fails
CollectWeather ==
    /\ pc = "weather"
    /\ weather_data' \in FetchedWeather \cup {_get_default_weather_data}
    /\ pc' = "soil"
    /\ UNCHANGED <<current_date, history, call, ret, crop_analyses, ranked_crops, soil_data,
                   market_data, market_calls, crops_to_analyze, recommendations>>

\* soil_agent.get_soil_data: the estimate, or the defaults when it fails
CollectSoil ==
    /\ pc = "soil"
    /\ \/ \E ph \in SoilPhDraws :
             soil_data' = [soil_type |-> EstimateSoilType(call.latitude, call.longitude),
                           soil_ph |-> ph, data_source |-> "Estimated"]
       \/ soil_data' = _get_default_soil_data
    /\ pc' = "market"
    /\ UNCHANGED <<current_date, history, call, ret, crop_analyses, ranked_crops, weather_data,
                   market_data, market_calls, crops_to_analyze, recommendations>>

\* market_agent.get_current_prices(), or the default prices when it fails,
\* then crops_to_analyze, an empty target_crops list kept as the list to analyse
CollectMarketKeepingEmpty ==
    /\ pc = "market"
    /\ \/ \E status \in MarketStatusDraws :
             market_data' = [market_status |-> status,
                             data_source |-> "Simulated Market Data"]
       \/ market_data' = _get_default_prices
    /\ market_calls' = Append(market_calls, [crops |-> <<>>, volatility |-> FromInt(1)])
    /\ crops_to_analyze' =
          IF call.target_crops = <<>> THEN CatalogOrder ELSE call.target_crops[1]
    /\ pc' = "analyze"
    /\ UNCHANGED <<current_date, history, call, ret, crop_analyses, ranked_crops, weather_data,
                   soil_data, recommendations>>

\* then crops_to_analyze.  Of the result
\* only market_status is read later, so the prices of this call are left out
\* and its draws are logged as the mean
CollectMarket ==
    /\ pc = "market"
    /\ \/ \E status \in MarketStatusDraws :
             market_data' = [market_status |-> status,
                             data_source |-> "Simulated Market Data"]
       \/ market_data' = _get_default_prices
    /\ market_calls' = Append(market_calls, [crops |-> <<>>, volatility |-> FromInt(1)])
    /\ crops_to_analyze' =
          IF call.target_crops = <<>> \/ call.target_crops[1] = <<>>
          THEN CatalogOrder ELSE call.target_crops[1]
    /\ pc' = "analyze"
    /\ UNCHANGED <<current_date, history, call, ret, crop_analyses, ranked_crops, weather_data,
                   soil_data, recommendations>>

\* one iteration of the loop over crops_to_analyze
AnalyzeCrop ==
    /\ pc = "analyze"
    /\ Len(crop_analyses) < Len(crops_to_analyze)
    /\ LET crop_name == crops_to_analyze[Len(crop_analyses) + 1]
       IN IF crop_name \notin DOMAIN CROP_DATABASE
          THEN /\ ret' = ErrorResult(Raise("KeyError"))
               /\ pc' = "done"
               /\ UNCHANGED <<crop_analyses, market_calls>>
          ELSE \E volatility \in QueryVolatility :
                  /\ IsZero(volatility) => ZeroDraws < MaxZeroDraws
                  /\ \E analysis \in {AnalyzeOneCrop(crop_name, weather_data, soil_data,
                                                       call.land_area, volatility,
                                                       current_date)} :
                        IF IsError(analysis)
                        THEN /\ ret' = ErrorResult(analysis)
                             /\ pc' = "done"
                             /\ UNCHANGED <<crop_analyses, market_calls>>
                        ELSE /\ crop_analyses' = Append(crop_analyses, analysis)
                             /\ market_calls' =
                                   Append(market_calls, [crops |-> <<crop_name>>,
                                                         volatility |-> volatility])
                             /\ UNCHANGED <<pc, ret>>
    /\ UNCHANGED <<current_date, history, call, ranked_crops, query_locals>>

\* the ranking taken as soon as one crop is analysed, the loop not yet over
RankAndFormatEarly ==
    /\ pc = "analyze"
    /\ Len(crop_analyses) >= 1
    /\ \E ranking \in {rank_crops_by_profitability(crop_analyses)} :
          /\ crop_analyses' = ranking.crop_analyses
          /\ ranked_crops' = ranking.ranked_crops
          /\ recommendations' =
                format_recommendations(ranking.ranked_crops, DefaultTopN, current_date)
    /\ pc' = "finish"
    /\ UNCHANGED <<current_date, history, call, ret, weather_data, soil_data, market_data,
                   market_calls, crops_to_analyze>>

\* rank_crops_by_profitability and format_recommendations
RankAndFormat ==
    /\ pc = "analyze"
    /\ Len(crop_analyses) = Len(crops_to_analyze)
    /\ \E ranking \in {rank_crops_by_profitability(crop_analyses)} :
          /\ crop_analyses' = ranking.crop_analyses
          /\ ranked_crops' = ranking.ranked_crops
          /\ recommendations' =
                format_recommendations(ranking.ranked_crops, DefaultTopN, current_date)
    /\ pc' = "finish"
    /\ UNCHANGED <<current_date, history, call, ret, weather_data, soil_data, market_data,
                   market_calls, crops_to_analyze>>

\* recommendations.update({...}) and return, or the except branch
FinishReport ==
    /\ pc = "finish"
    /\ LET next_steps == _generate_next_steps(Take(ranked_crops, 3), current_date.month)
       IN IF IsError(next_steps)
          THEN /\ ret' = ErrorResult(next_steps)
               /\ UNCHANGED recommendations
          ELSE LET report ==
                     [k \in DOMAIN recommendations
                            \cup {"location", "environmental_summary",
                                  "planting_calendar", "next_steps"} |->
                        CASE k = "location" ->
                                [latitude |-> call.latitude,
                                 longitude |-> call.longitude,
                                 land_area_hectares |-> call.land_area]
                          [] k = "environmental_summary" ->
                                [weather |-> weather_data, soil |-> soil_data,
                                 market_conditions |->
                                    GetOr(market_data, "market_status", "unknown")]
                          [] k = "planting_calendar" ->
                                generate_planting_calendar(
                                    Take(ranked_crops, 5), DefaultMonthsAhead,
                                    current_date)
                          [] k = "next_steps" -> next_steps
                          [] OTHER -> recommendations[k]]
               IN /\ recommendations' = report
                  /\ ret' = report
    /\ pc' = "done"
    /\ UNCHANGED <<current_date, history, call, crop_analyses, ranked_crops, weather_data,
                   soil_data, market_data, market_calls, crops_to_analyze>>

Next ==
    \/ CollectWeather
    \/ CollectSoil
    \/ CollectMarket
    \/ AnalyzeCrop
    \/ RankAndFormat
    \/ FinishReport

Spec == Init /\ [][Next]_vars

----------------------------------------------------------------------------
(* Queries against a catalog in which one crop has no planting months      *)

FallowCatalog == [CROP_DATABASE EXCEPT !["wheat"].planting_months = <<>>]

FallowQueries ==
    {Query(41, -93, FromInt(10), << <<"rice", "wheat">> >>),
     Query(41, -93, FromInt(10), << <<"corn", "rice">> >>)}

InitFallow ==
    /\ pc = "weather"
    /\ call \in FallowQueries
    /\ current_date \in QueryDates
    /\ ret = Nil
    /\ crop_analyses = <<>>
    /\ ranked_crops = <<>>
    /\ NoQuery
    /\ market_calls = <<>>

\* one iteration of the loop over crops_to_analyze, CROP_DATABASE being catalog
AnalyzeCropInCatalog(catalog) ==
    /\ pc = "analyze"
    /\ Len(crop_analyses) < Len(crops_to_analyze)
    /\ \E volatility \in QueryVolatility :
          /\ IsZero(volatility) => ZeroDraws < MaxZeroDraws
          /\ \E analysis \in {AnalyzeOneCropFrom(
                                   catalog, crops_to_analyze[Len(crop_analyses) + 1],
                                   weather_data, soil_data, call.land_area, volatility,
                                   current_date)} :
                IF IsError(analysis)
                THEN /\ ret' = ErrorResult(analysis)
                     /\ pc' = "done"
                     /\ UNCHANGED <<crop_analyses, market_calls>>
                ELSE /\ crop_analyses' = Append(crop_analyses, analysis)
                     /\ market_calls' =
                           Append(market_calls,
                                  [crops |-> <<crops_to_analyze[Len(crop_analyses) + 1]>>,
                                   volatility |-> volatility])
                     /\ UNCHANGED <<pc, ret>>
    /\ UNCHANGED <<current_date, history, call, ranked_crops, query_locals>>

AnalyzeFallowCrop == AnalyzeCropInCatalog(FallowCatalog)

NextFallow ==
    \/ CollectWeather
    \/ CollectSoil
    \/ CollectMarket
    \/ AnalyzeFallowCrop
    \/ RankAndFormat
    \/ FinishReport

SpecFallow == InitFallow /\ [][NextFallow]_vars

----------------------------------------------------------------------------
(* Several queries put to one FarmingAgent                                 *)

MaxQueries == 2

SessionQueries ==
    {Query(30, -90, FromInt(1), << <<"rice", "dragonfruit">> >>),
     Query(41, -93, FromInt(10), << <<"corn", "wheat">> >>)}

InitSession ==
    /\ pc = "weather"
    /\ call \in SessionQueries
    /\ current_date \in QueryDates
    /\ ret = Nil
    /\ crop_analyses = <<>>
    /\ ranked_crops = <<>>
    /\ NoQuery
    /\ market_calls = <<>>

\* the next call with crop_analyses of the call before still in place, as if
\* the list belonged to the agent
NewQueryKeepingAnalyses ==
    /\ pc = "done"
    /\ Len(history) + 1 < MaxQueries
    /\ history' = Append(history, [query |-> call, failed |-> IsError(ret)])
    /\ call' \in SessionQueries
    /\ pc' = "weather"
    /\ ret' = Nil
    /\ ranked_crops' = <<>>
    /\ weather_data' = Nil
    /\ soil_data' = Nil
    /\ market_data' = Nil
    /\ crops_to_analyze' = Nil
    /\ recommendations' = Nil
    /\ market_calls' = <<>>
    /\ UNCHANGED <<current_date, crop_analyses>>

\* the next call of get_comprehensive_recommendations on the same agent: the
\* caller has the result of the call before, every local starts afresh, and
\* the agent's attributes (current_date among them) are as they were
NewQuery ==
    /\ pc = "done"
    /\ Len(history) + 1 < MaxQueries
    /\ history' = Append(history, [query |-> call, failed |-> IsError(ret)])
    /\ call' \in SessionQueries
    /\ pc' = "weather"
    /\ ret' = Nil
    /\ crop_analyses' = <<>>
    /\ ranked_crops' = <<>>
    /\ weather_data' = Nil
    /\ soil_data' = Nil
    /\ market_data' = Nil
    /\ crops_to_analyze' = Nil
    /\ recommendations' = Nil
    /\ market_calls' = <<>>
    /\ UNCHANGED current_date

NextSession ==
    \/ CollectWeather
    \/ CollectSoil
    \/ CollectMarket
    \/ AnalyzeCrop
    \/ RankAndFormat
    \/ FinishReport
    \/ NewQuery

SpecSession == InitSession /\ [][NextSession]_vars
----------------------------------------------------------------------------
(* Properties of rank_crops_by_profitability (SpecRank)                    *)

\* how often x occurs in list
Occurrences(list, x) == Cardinality({i \in DOMAIN list : list[i] = x})

\* C1: the ranked list holds exactly the analyses of the input list, each as
\* often as the input does, and its combined scores never increase from one
\* position to the next.
RankedIsSortedPermutation ==
    pc = "ranked" =>
        /\ Len(ranked_crops) = Len(crop_analyses)
        /\ \A i \in DOMAIN crop_analyses :
              Occurrences(ranked_crops, crop_analyses[i])
                  = Occurrences(crop_analyses, crop_analyses[i])
        /\ \A i \in DOMAIN ranked_crops :
              /\ "combined_score" \in DOMAIN ranked_crops[i]
              /\ i > 1 => FLe(ranked_crops[i].combined_score,
                              ranked_crops[i - 1].combined_score)

\* a ranking of three analyses that had to move the last one to the front
RankedReordersThree ==
    /\ pc = "ranked"
    /\ Len(crop_analyses) = 3
    /\ ranked_crops[1] = crop_analyses[3]
    /\ FLt(crop_analyses[1].combined_score, crop_analyses[3].combined_score)
    /\ FLt(crop_analyses[2].combined_score, crop_analyses[1].combined_score)

\* the position of the analysis of crop_name in the ranked list
RankOf(crop_name) == CHOOSE k \in DOMAIN ranked_crops : ranked_crops[k].crop_name = crop_name

\* C2: two analyses with equal combined scores keep the order they had in
\* the input list.
RankIsStable ==
    pc = "ranked" =>
        \A i, j \in DOMAIN crop_analyses :
            (i < j /\ FCmp(crop_analyses[i].combined_score,
                           crop_analyses[j].combined_score) = 0)
                => RankOf(crop_analyses[i].crop_name) < RankOf(crop_analyses[j].crop_name)

\* a tie between the first and the last input, with a higher score between
\* them that the sort moves to the front
RankTieAroundHigherScore ==
    /\ pc = "ranked"
    /\ Len(crop_analyses) = 3
    /\ FCmp(crop_analyses[1].combined_score, crop_analyses[3].combined_score) = 0
    /\ crop_analyses[1].profit_analysis # crop_analyses[3].profit_analysis
    /\ FLt(crop_analyses[1].combined_score, crop_analyses[2].combined_score)
    /\ ranked_crops = <<crop_analyses[2], crop_analyses[1], crop_analyses[3]>>

\* C4: every combined score lies in [0, 100], loss-making crops included.
CombinedScoreWithinZeroToHundred ==
    pc = "ranked" =>
        \A i \in DOMAIN ranked_crops :
            /\ FLe(F0, ranked_crops[i].combined_score)
            /\ FLe(ranked_crops[i].combined_score, F100)

RoiOf(analysis) == GetOr(GetOr(analysis, "profit_analysis", <<>>), "roi_percentage", F0)

\* C5: the return on investment counts only up to 100: with equal
\* suitability, two returns of 100 or more give the same combined score, and
\* a return below 100 gives a smaller one than a return of 100 or more.
ReturnCountsUpToHundred ==
    pc = "ranked" =>
        \A i, j \in DOMAIN crop_analyses :
            LET a == crop_analyses[i]
                b == crop_analyses[j]
            IN (a.suitability_score = b.suitability_score /\ FLe(F100, RoiOf(b))) =>
                  /\ FLe(F100, RoiOf(a)) => a.combined_score = b.combined_score
                  /\ FLt(RoiOf(a), F100) => FLt(a.combined_score, b.combined_score)

\* equally suitable crops with returns of 100 and 250 end up tied
ReturnsAboveHundredTie ==
    /\ pc = "ranked"
    /\ \E i, j \in DOMAIN crop_analyses :
          /\ crop_analyses[i].suitability_score = crop_analyses[j].suitability_score
          /\ RoiOf(crop_analyses[i]) = F100
          /\ RoiOf(crop_analyses[j]) = FromInt(250)
          /\ crop_analyses[i].combined_score = crop_analyses[j].combined_score

----------------------------------------------------------------------------
(* Properties of calculate_crop_suitability_score (SpecSuit)               *)

\* C3: the suitability score is a number in [0, 100] whichever of the four
\* fields the snapshot holds and whatever the month.
SuitabilityWithinZeroToHundred ==
    pc = "scored" =>
        /\ ~IsError(ret)
        /\ FLe(F0, ret)
        /\ FLe(ret, F100)

\* C15: a sub-score counts only when its input is in the snapshot, so a
\* snapshot holding none of the fields scores 0.
EmptySnapshotScoresZero ==
    (pc = "scored" /\ DOMAIN call.environmental_conditions = {}) => ret = F0

\* every field the snapshot holds meets the crop's requirement
AllPresentFieldsMatch(req, env) ==
    /\ HasKey(env, "temperature") => InRange(env.temperature, req.optimal_temp_range)
    /\ HasKey(env, "rainfall") => InRange(env.rainfall, req.rainfall_requirement)
    /\ HasKey(env, "soil_ph") => InRange(env.soil_ph, req.soil_ph_range)
    /\ HasKey(env, "soil_type") => Lower(env.soil_type) \in Range(req.soil_types)

\* C16: when every field the snapshot holds meets the crop's requirement and
\* the month is a planting month, the score is exactly 100, whichever subset
\* of the fields is present.
PerfectMatchScoresHundred ==
    (/\ pc = "scored"
     /\ AllPresentFieldsMatch(call.crop_requirements, call.environmental_conditions)
     /\ current_date.month \in Range(call.crop_requirements.planting_months)) =>
        ret = F100

\* the score of a snapshot holding the soil type alone, in a planting month,
\* when the soil-type sub-score is soil_score
ScoreOfSoilTypeAlone(soil_score) ==
    FDiv(FAdd(FMul(soil_score, Dec(15, 100)), FMul(F100, Dec(1, 10))),
         FAdd(Dec(15, 100), Dec(1, 10)))

\* C24: the soil-type sub-score is 100 exactly when the snapshot's soil type
\* equals one of the requirement's labels with letter case ignored on both
\* sides, and 50 otherwise (read off the score of a snapshot that holds the
\* soil type alone, in a planting month).
SoilTypeIgnoresCaseOnBothSides ==
    (/\ pc = "scored"
     /\ DOMAIN call.environmental_conditions = {"soil_type"}
     /\ current_date.month \in Range(call.crop_requirements.planting_months)) =>
        ret = ScoreOfSoilTypeAlone(
                  IF \E i \in DOMAIN call.crop_requirements.soil_types :
                         Lower(call.crop_requirements.soil_types[i])
                             = Lower(call.environmental_conditions.soil_type)
                  THEN F100 ELSE F50)

----------------------------------------------------------------------------
(* Properties of the seasonal factor (SpecSeason)                          *)

\* the least number of months between month m and a month of the list,
\* counted round the year
CircularDistance(m, months) ==
    CHOOSE d \in 0..12 :
        /\ \E i \in DOMAIN months :
              d = (m - months[i]) % 12 \/ d = (months[i] - m) % 12
        /\ \A i \in DOMAIN months :
              d <= (m - months[i]) % 12 /\ d <= (months[i] - m) % 12

\* C25: with planting months given, the seasonal sub-score (the score of a
\* snapshot without fields) is 100 in a planting month and otherwise
\* max(0, 100 - 20 * d) for the least circular distance d to a planting
\* month, which lies in 1..6; December and January are 1 apart.
SeasonalScoreFromCircularDistance ==
    (pc = "scored" /\ call.crop_requirements.planting_months # <<>>) =>
        /\ current_date.month \in Range(call.crop_requirements.planting_months) =>
              ret = F100
        /\ current_date.month \notin Range(call.crop_requirements.planting_months) =>
              /\ CircularDistance(current_date.month,
                                  call.crop_requirements.planting_months) \in 1..6
              /\ ret = FromInt(MaxInt(0, 100 - 20 * CircularDistance(
                            current_date.month, call.crop_requirements.planting_months)))
        /\ (current_date.month = 12
               /\ call.crop_requirements.planting_months = <<1>>) => ret = FromInt(80)
        /\ (current_date.month = 1
               /\ call.crop_requirements.planting_months = <<12>>) => ret = FromInt(80)

\* December scored for a crop planted in January only
DecemberNextToJanuary ==
    /\ pc = "scored"
    /\ current_date.month = 12
    /\ call.crop_requirements.planting_months = <<1>>
    /\ ret = FromInt(80)

----------------------------------------------------------------------------
(* Properties of calculate_profit_analysis (SpecProfit)                    *)

\* a stored amount in hundredths
Cents(x) == x.s * BToNat(RoundedScaled(x, 100))

\* C6: for a positive land area, the stored net profit is the stored gross
\* revenue minus the stored total costs, to the cent.
NetProfitIsRevenueMinusCosts ==
    (pc = "analyzed" /\ FLt(F0, call.land_area) /\ "financial_analysis" \in DOMAIN ret) =>
        Cents(ret.financial_analysis.net_profit)
            = Cents(ret.financial_analysis.gross_revenue)
                - Cents(ret.financial_analysis.total_costs)

\* the price, cost and yield the analysis of the finished call worked with
ProfitInputs ==
    [crop_price |-> CurrentPrice(call.crop, market_calls[1].volatility),
     production_cost |-> FromInt(GetOr(production_costs, call.crop, 0)),
     expected_yield |->
        IF call.custom_yield = <<>> \/ IsZero(call.custom_yield[1])
        THEN Dec(GetOr(typical_yields_tenths, call.crop, 0), 10)
        ELSE call.custom_yield[1]]

\* C7: the result is the insufficient-data marker, with no financial record,
\* whenever the price, the production cost or the expected yield is zero or
\* missing; a financial record is returned only when all three are non-zero.
InsufficientDataIffZeroOrMissing ==
    pc = "analyzed" =>
        LET missing == \/ IsZero(ProfitInputs.crop_price)
                       \/ IsZero(ProfitInputs.production_cost)
                       \/ IsZero(ProfitInputs.expected_yield)
        IN /\ missing => (ret = InsufficientData(call.crop)
                          /\ "financial_analysis" \notin DOMAIN ret)
           /\ "financial_analysis" \in DOMAIN ret => ~missing
           /\ "financial_analysis" \in DOMAIN ret \/ "error" \in DOMAIN ret

\* a crop with a cost and a yield whose price came out as zero
ZeroPriceGivesMarker ==
    /\ pc = "analyzed"
    /\ call.crop = "wheat"
    /\ IsZero(market_calls[1].volatility)
    /\ FLt(F0, call.land_area)
    /\ ret = InsufficientData("wheat")

\* yield * area * price and cost * area, before any rounding
GrossOf(inputs, land_area) ==
    FMul(FMul(inputs.expected_yield, land_area), inputs.crop_price)

CostsOf(inputs, land_area) == FMul(inputs.production_cost, land_area)

\* the financial record holds the two-decimal roundings of gross, costs, net
\* and the percentage net / costs * 100
FinancialsOf(financial_analysis, gross, costs) ==
    /\ financial_analysis.gross_revenue = Round2(gross)
    /\ financial_analysis.total_costs = Round2(costs)
    /\ financial_analysis.net_profit = Round2(FSub(gross, costs))
    /\ financial_analysis.roi_percentage
          = Round2(FMul(FDiv(FSub(gross, costs), costs), F100))

\* C17: for a non-zero price, cost and yield and a positive land area the
\* analysis returns a financial record whose gross revenue is
\* yield * area * price, total costs cost * area, net profit their difference
\* and ROI net profit / total costs * 100, each rounded to two decimals when
\* it is stored; price 250, cost 400, yield 3 and area 10 give 7500, 4000,
\* 3500 and 87.5.
ProfitFollowsFormulas ==
    (/\ pc = "analyzed"
     /\ FLt(F0, call.land_area)
     /\ ~IsZero(ProfitInputs.crop_price)
     /\ ~IsZero(ProfitInputs.production_cost)
     /\ ~IsZero(ProfitInputs.expected_yield)) =>
        /\ HasKey(ret, "financial_analysis")
        /\ FinancialsOf(ret.financial_analysis,
                        GrossOf(ProfitInputs, call.land_area),
                        CostsOf(ProfitInputs, call.land_area))
        /\ (/\ ProfitInputs.crop_price = FromInt(250)
            /\ ProfitInputs.production_cost = FromInt(400)
            /\ ProfitInputs.expected_yield = FromInt(3)
            /\ call.land_area = FromInt(10)) =>
               /\ ret.financial_analysis.gross_revenue = FromInt(7500)
               /\ ret.financial_analysis.total_costs = FromInt(4000)
               /\ ret.financial_analysis.net_profit = FromInt(3500)
               /\ ret.financial_analysis.roi_percentage = Dec(875, 10)

\* wheat at its base price on ten hectares, analysed
WheatOnTenHectares ==
    /\ pc = "analyzed"
    /\ call = [crop |-> "wheat", land_area |-> FromInt(10), custom_yield |-> <<>>]
    /\ market_calls[1].volatility = FromInt(1)
    /\ ProfitInputs.crop_price = FromInt(250)
    /\ ret.financial_analysis.net_profit = FromInt(3500)

----------------------------------------------------------------------------
(* Properties of calculate_risk_assessment (SpecRisk)                      *)

\* low = 1, medium = 2, high = 3
LevelNumber(name) == IF name = "low" THEN 1 ELSE IF name = "medium" THEN 2 ELSE 3

\* the sum of the weather, market and pest levels of a result
LevelSum(risk_levels) ==
    LevelNumber(risk_levels.weather_risk) + LevelNumber(risk_levels.market_risk)
        + LevelNumber(risk_levels.pest_risk)

\* C22: the overall risk is taken from the average of the weather, market
\* and pest levels counted low = 1, medium = 2, high = 3: high from 2.5 up,
\* medium from 1.5 up, low below; and the risk score is that average times
\* 33.33.
OverallRiskFromAverage ==
    pc = "assessed" =>
        /\ ret.risk_levels.overall_risk
              = (IF 2 * LevelSum(ret.risk_levels) >= 5 * 3 THEN "high"
                 ELSE IF 2 * LevelSum(ret.risk_levels) >= 3 * 3 THEN "medium"
                 ELSE "low")
        /\ ret.risk_score
              = FMul(FDiv(FromInt(LevelSum(ret.risk_levels)), FromInt(3)), Dec(3333, 100))

\* an assessment of medium weather and medium market risk: average 5/3
MediumFromAverage ==
    /\ pc = "assessed"
    /\ ret.risk_levels.weather_risk = "medium"
    /\ ret.risk_levels.market_risk = "medium"
    /\ ret.risk_levels.overall_risk = "medium"
    /\ FLt(FromInt(55), ret.risk_score) /\ FLt(ret.risk_score, FromInt(56))

\* C27: no assessment has the overall risk high: the pest risk is always
\* low and the market risk never low, so the three levels sum to 4..7, the
\* average stays under 2.5, and the overall risk is low or medium.
OverallRiskNeverHigh ==
    pc = "assessed" =>
        /\ ret.risk_levels.pest_risk = "low"
        /\ ret.risk_levels.market_risk \in {"medium", "high"}
        /\ LevelSum(ret.risk_levels) \in 4..7
        /\ ret.risk_levels.overall_risk \in {"low", "medium"}

\* the worst case: high weather risk for a crop of high market risk
WorstCaseIsMedium ==
    /\ pc = "assessed"
    /\ ret.risk_levels.weather_risk = "high"
    /\ ret.risk_levels.market_risk = "high"
    /\ LevelSum(ret.risk_levels) = 7
    /\ ret.risk_levels.overall_risk = "medium"

----------------------------------------------------------------------------
(* Properties of generate_planting_calendar (SpecCalendar)                 *)

\* C9: a calendar asked for 12 months ahead has exactly 12 distinct month
\* keys, whatever the start date.
CalendarHasTwelveKeys ==
    pc = "calendar_done" => Cardinality(DOMAIN ret) = DefaultMonthsAhead

\* C10: every planting month of every crop handed to the calendar is the
\* month of some calendar key whose entry lists the crop.
PlantingMonthsAllListed ==
    pc = "calendar_done" =>
        \A i \in DOMAIN ranked_crops :
            \A month \in Range(ranked_crops[i].planting_months) :
                \E key \in DOMAIN ret :
                    /\ key[2] = month
                    /\ \E j \in DOMAIN ret[key].recommended_crops :
                          ret[key].recommended_crops[j].name = ranked_crops[i].crop_name

\* the names listed under a calendar key
ListedUnder(key) ==
    {ret[key].recommended_crops[j].name : j \in DOMAIN ret[key].recommended_crops}

\* C11: the calendar lists a crop under a key only if the key's month is one
\* of the crop's planting months; a crop with no planting months is listed
\* under no key, and the calendar is built all the same.
ListedOnlyInPlantingMonths ==
    pc = "calendar_done" =>
        /\ DOMAIN ret = {MonthKey(AddDays(current_date, DaysPerStep * i)) :
                             i \in 0..(DefaultMonthsAhead - 1)}
        /\ \A key \in DOMAIN ret :
              /\ \A name \in ListedUnder(key) :
                    \E i \in DOMAIN ranked_crops :
                        /\ ranked_crops[i].crop_name = name
                        /\ key[2] \in Range(ranked_crops[i].planting_months)
              /\ \A i \in DOMAIN ranked_crops :
                    ranked_crops[i].planting_months = <<>> =>
                        ranked_crops[i].crop_name \notin ListedUnder(key)

\* a calendar built for a crop without planting months and a crop with some
NoSeasonCropLeftOut ==
    /\ pc = "calendar_done"
    /\ \E i \in DOMAIN ranked_crops : ranked_crops[i].planting_months = <<>>
    /\ \E key \in DOMAIN ret : ListedUnder(key) = {"rice"}
    /\ \E key \in DOMAIN ret : ListedUnder(key) = {}

----------------------------------------------------------------------------
(* Properties of format_recommendations (SpecFormat)                       *)

\* C12: for a non-empty ranked list and top_n >= 1 the summary names the
\* first ranked crop and carries its net profit (0 when it has no financial
\* record) and its combined score, neither of them rounded.
SummaryMirrorsFirstRanked ==
    (pc = "formatted" /\ ranked_crops # <<>> /\ call.top_n >= 1) =>
        /\ ret.summary.best_crop = ranked_crops[1].crop_name
        /\ ret.summary.expected_profit
              = (IF HasKey(ranked_crops[1].profit_analysis, "net_profit")
                 THEN ranked_crops[1].profit_analysis.net_profit
                 ELSE F0)
        /\ ret.summary.confidence_score = ranked_crops[1].combined_score

\* a report whose first crop has figures that rounding to one decimal changes
SummaryOfUnroundFigures ==
    /\ pc = "formatted"
    /\ Len(ranked_crops) >= 2
    /\ call.top_n = 1
    /\ HasKey(ranked_crops[1].profit_analysis, "net_profit")
    /\ Round1(ranked_crops[1].profit_analysis.net_profit)
          # ranked_crops[1].profit_analysis.net_profit
    /\ Round1(ranked_crops[1].combined_score) # ranked_crops[1].combined_score
    /\ ret.summary.confidence_score # ret.top_recommendations[1].combined_score

TopRecommendationsArePrefix ==
    (pc = "formatted" /\ call.top_n >= 0) =>
        /\ Len(ret.top_recommendations) = MinInt(call.top_n, Len(ranked_crops))
        /\ \A k \in DOMAIN ret.top_recommendations :
              /\ ret.top_recommendations[k].rank = k
              /\ ret.top_recommendations[k].crop_name = ranked_crops[k].crop_name
        /\ ret.total_crops_analyzed = Len(ranked_crops)

\* a report of the two best of three ranked crops
TwoOfThreeReported ==
    /\ pc = "formatted"
    /\ Len(ranked_crops) = 3
    /\ call.top_n = 2
    /\ Len(ret.top_recommendations) = 2
    /\ ret.top_recommendations[2].rank = 2
    /\ ret.total_crops_analyzed = 3

----------------------------------------------------------------------------
(* Properties of get_comprehensive_recommendations (Spec)                  *)

\* the crops of the query whose price draw left them without a financial record
MarkerCrops ==
    {i \in DOMAIN crop_analyses : IsZero(market_calls[i + 1].volatility)}

\* C8: a crop whose profit analysis is the insufficient-data marker does not
\* stop the query: when every requested crop is in the catalog the query ends
\* with a report over all requested crops, and the marker crop is in the
\* ranked list with an empty profit analysis and a combined score of its
\* suitability share alone.
MarkerCropStaysInBatch ==
    (pc = "done" /\ \A i \in DOMAIN crops_to_analyze :
                        crops_to_analyze[i] \in DOMAIN CROP_DATABASE) =>
        /\ ~IsError(ret)
        /\ ret.total_crops_analyzed = Len(crops_to_analyze)
        /\ Len(ranked_crops) = Len(crops_to_analyze)
        /\ \A i \in DOMAIN crops_to_analyze :
              \E k \in DOMAIN ranked_crops :
                  /\ ranked_crops[k].crop_name = crops_to_analyze[i]
                  /\ i \in MarkerCrops =>
                        /\ ranked_crops[k].profit_analysis = <<>>
                        /\ ranked_crops[k].combined_score
                              = FMul(ranked_crops[k].suitability_score, WeightSuitability)

\* a finished query whose first crop of three drew a zero price
MarkerCropInReport ==
    /\ pc = "done"
    /\ Len(crops_to_analyze) = 3
    /\ MarkerCrops = {1}
    /\ FLt(F0, call.land_area)
    /\ ~IsError(ret)
    /\ \E k \in DOMAIN ret.top_recommendations :
          /\ ret.top_recommendations[k].crop_name = crops_to_analyze[1]
          /\ ret.top_recommendations[k].profit_analysis = <<>>

\* the ranking, the formatting or the calendar has taken place
RankingStarted ==
    \/ ranked_crops # <<>>
    \/ recommendations # Nil
    \/ (pc = "done" /\ ~IsError(ret))

\* C18: the ranking starts only when every crop to analyse has its analysis,
\* in the order asked for; the formatted report and the calendar exist only
\* once the ranking is there; and from the ranking on no analysis is added to
\* the list.
RankingWaitsForEveryAnalysis ==
    /\ [](RankingStarted =>
            /\ Len(crop_analyses) = Len(crops_to_analyze)
            /\ \A i \in DOMAIN crop_analyses :
                  crop_analyses[i].crop_name = crops_to_analyze[i]
            /\ Len(ranked_crops) = Len(crop_analyses))
    /\ []((recommendations # Nil) =>
            recommendations.total_crops_analyzed = Len(crops_to_analyze))
    /\ []((pc = "done" /\ ~IsError(ret)) =>
            /\ recommendations = ret
            /\ HasKey(ret, "planting_calendar"))
    /\ [][RankingStarted => crop_analyses' = crop_analyses]_vars

\* a finished query whose ranking moved the first analysed crop down
RankedAfterThreeAnalyses ==
    /\ pc = "done"
    /\ ~IsError(ret)
    /\ Len(crop_analyses) = 3
    /\ ranked_crops[1].crop_name # crop_analyses[1].crop_name
    /\ HasKey(ret, "planting_calendar")

\* the query asks for catalog crops only (or for the whole catalog), on a
\* positive area
AnswerableQuery ==
    /\ FLt(F0, call.land_area)
    /\ call.target_crops # <<>> =>
          \A i \in DOMAIN call.target_crops[1] :
              call.target_crops[1][i] \in DOMAIN CROP_DATABASE

\* C19: a failed weather, soil or market fetch does not end the query: the
\* agent's fixed default snapshot stands in for the data, and a finished
\* query for catalog crops on a positive area returns a report, which shows
\* the data the analysis worked with, whichever fetches failed.
FetchFailureNotPropagated ==
    /\ weather_data # Nil /\ weather_data.data_source = "Default" =>
          weather_data = _get_default_weather_data
    /\ soil_data # Nil /\ soil_data.data_source = "Default" =>
          soil_data = _get_default_soil_data
    /\ market_data # Nil /\ market_data.data_source = "Default Data" =>
          market_data = _get_default_prices
    /\ (pc = "done" /\ AnswerableQuery) =>
          /\ ~IsError(ret)
          /\ weather_data # Nil /\ soil_data # Nil /\ market_data # Nil
          /\ ret.environmental_summary
                = [weather |-> weather_data, soil |-> soil_data,
                   market_conditions |-> market_data.market_status]
          /\ ret.total_crops_analyzed = Len(crops_to_analyze)

\* a finished query all three of whose fetches failed
ReportFromDefaultsOnly ==
    /\ pc = "done"
    /\ AnswerableQuery
    /\ weather_data = _get_default_weather_data
    /\ soil_data = _get_default_soil_data
    /\ market_data = _get_default_prices
    /\ ~IsError(ret)
    /\ Len(ret.top_recommendations) = 3
    /\ ret.environmental_summary.weather.data_source = "Default"

\* C21: a query whose latitude is outside [-90, 90] or whose longitude is
\* outside [-180, 180] ends with an error result and no report.
CoordinatesOutOfRangeFail ==
    (pc = "done" /\ (call.latitude \notin -90..90 \/ call.longitude \notin -180..180)) =>
        /\ IsError(ret)
        /\ recommendations = Nil

\* C26: in one query the price source is consulted once, before the loop
\* over the crops, and not again for any crop.
PricesFetchedOncePerQuery ==
    pc = "done" =>
        /\ Len(market_calls) = 1
        /\ market_calls[1].crops = <<>>

\* analysis `after` is analysis `before` with at most combined_score attached
SameButCombinedScore(before, after) ==
    /\ DOMAIN before \subseteq DOMAIN after
    /\ DOMAIN after \ DOMAIN before \subseteq {"combined_score"}
    /\ \A k \in DOMAIN before \ {"combined_score"} : after[k] = before[k]

\* C23: an analysis, once created, changes only by having combined_score
\* attached: the ranking step leaves every other field of every analysis as
\* it was and ranks these very analyses, and no later step (formatting,
\* calendar, next steps) changes an analysis or the ranked list.
AnalysesOnlyGainCombinedScore ==
    [][/\ \A i \in DOMAIN crop_analyses :
             /\ i \in DOMAIN crop_analyses'
             /\ SameButCombinedScore(crop_analyses[i], crop_analyses'[i])
       /\ ranked_crops # <<>> =>
             /\ ranked_crops' = ranked_crops
             /\ crop_analyses' = crop_analyses
       /\ (ranked_crops = <<>> /\ ranked_crops' # <<>>) =>
             \A k \in DOMAIN ranked_crops' :
                 \E i \in DOMAIN crop_analyses :
                     /\ ranked_crops'[k] = crop_analyses'[i]
                     /\ SameButCombinedScore(crop_analyses[i], ranked_crops'[k])]_vars

\* a finished query of two crops whose analyses carry the combined score
\* and whose suitability scores are not round to one decimal
ReportedAnalysesKeepFigures ==
    /\ pc = "done"
    /\ ~IsError(ret)
    /\ Len(ranked_crops) = 2
    /\ \A i \in DOMAIN crop_analyses : HasKey(crop_analyses[i], "combined_score")
    /\ \E i \in DOMAIN ranked_crops :
          Round1(ranked_crops[i].suitability_score) # ranked_crops[i].suitability_score

\* C28: target_crops = [] is treated as target_crops = None: once the list
\* of crops to analyse is chosen it is the whole catalog in both cases, the
\* report of such a query counts every crop of CROP_DATABASE, and no report
\* of any query counts zero crops.
EmptySubsetMeansWholeCatalog ==
    /\ (pc \notin {"weather", "soil", "market"}
            /\ call.target_crops \in {<<>>, << <<>> >>}) =>
          /\ crops_to_analyze = CatalogOrder
          /\ (pc = "done" /\ ~IsError(ret)) =>
                ret.total_crops_analyzed = Cardinality(DOMAIN CROP_DATABASE)
    /\ (pc = "done" /\ ~IsError(ret)) => ret.total_crops_analyzed >= 1

\* the report of a query with target_crops = [], every crop of the catalog
\* analysed and counted
EmptySubsetReportCountsCatalog ==
    /\ pc = "done"
    /\ call.target_crops = << <<>> >>
    /\ ~IsError(ret)
    /\ Len(crop_analyses) = Cardinality(DOMAIN CROP_DATABASE)
    /\ ret.total_crops_analyzed = Len(CatalogOrder)

----------------------------------------------------------------------------
(* Properties of a session of queries (SpecSession)                        *)

\* the crop ids a query names that the catalog does not have
UnknownCrops(query) ==
    IF query.target_crops = <<>> THEN {}
    ELSE Range(query.target_crops[1]) \ DOMAIN CROP_DATABASE

\* C20: a query naming a crop id that is not in the catalog ends, instead
\* of raising, with an error result of an error text and a message and no
\* recommendations; and a later query for catalog crops on the same agent
\* returns the report of exactly its own crops.
UnknownCropFailsOnlyItsQuery ==
    /\ (pc = "done" /\ UnknownCrops(call) # {}) =>
          /\ DOMAIN ret = {"error", "message"}
          /\ recommendations = Nil
          /\ ranked_crops = <<>>
    /\ (pc = "done" /\ UnknownCrops(call) = {} /\ FLt(F0, call.land_area)) =>
          /\ ~IsError(ret)
          /\ ret.total_crops_analyzed = Len(call.target_crops[1])
          /\ {ret.top_recommendations[k].crop_name : k \in DOMAIN ret.top_recommendations}
                = Range(call.target_crops[1])
          /\ ret.summary.best_crop \in Range(call.target_crops[1])

\* a report returned after a query of the same agent failed on an unknown crop
ReportAfterFailedQuery ==
    /\ pc = "done"
    /\ Len(history) = 1
    /\ history[1].failed
    /\ UnknownCrops(history[1].query) = {"dragonfruit"}
    /\ UnknownCrops(call) = {}
    /\ ~IsError(ret)
    /\ Len(ret.top_recommendations) = 2

----------------------------------------------------------------------------
(* Idempotence of the ranking (SpecRank)                                   *)

\* C30: rank_crops_by_profitability applied to its own output returns the
\* analyses in the same order with the same combined_score values, and
\* leaves the list it was given as it was, tied scores included.
RankingIsIdempotent ==
    [][(pc = "ranked" /\ pc' = "reranked") =>
            /\ ret' = ranked_crops
            /\ ranked_crops' = ranked_crops
            /\ crop_analyses' = crop_analyses]_vars

\* a list of three analyses ranked twice, two different ones of them with
\* the same combined score
RerankedWithTie ==
    /\ pc = "reranked"
    /\ Len(ret) = 3
    /\ \E i, j \in DOMAIN ret :
          /\ i < j
          /\ ret[i] # ret[j]
          /\ ret[i].combined_score = ret[j].combined_score

----------------------------------------------------------------------------
(* Properties of queries against a catalog with a crop without planting    *)
(* months (SpecFallow)                                                     *)

\* the crops a query names that have no planting months in the catalog
FallowCrops(query) ==
    {c \in Range(query.target_crops[1]) : FallowCatalog[c].planting_months = <<>>}

\* C29: a crop whose requirement has no planting months makes the
\* suitability score raise, and the query that analyses it ends with the
\* error result of that exception: no report, nothing ranked, the other
\* crops of the query included.
FallowCropFailsWholeQuery ==
    (pc = "done" /\ FallowCrops(call) # {}) =>
        /\ DOMAIN ret = {"error", "message"}
        /\ ret.error = "ValueError"
        /\ recommendations = Nil
        /\ ranked_crops = <<>>

\* a query that had analysed rice before it failed on the crop without
\* planting months
FailedAfterRiceWasAnalysed ==
    /\ pc = "done"
    /\ call.target_crops = << <<"rice", "wheat">> >>
    /\ Len(crop_analyses) = 1
    /\ crop_analyses[1].crop_name = "rice"
    /\ IsError(ret)
    /\ ranked_crops = <<>>
====
